---------------------------- MODULE Spec2Model ----------------------------
(***************************************************************************)
(* intake-guardian: the InterLock signal mesh.                             *)
(*                                                                         *)
(*   Spec       the mesh socket (InterLockSocket) with its admission       *)
(*              filter (Tumbler) and dispatch registry (SignalHandlers)    *)
(*   SpecCodec  the wire codec (encode / decode) applied to bounded sets   *)
(*              of signals and byte buffers                                *)
(***************************************************************************)
EXTENDS Integers, Sequences, FiniteSets, TLC

VARIABLES
    \* ---- InterLockSocket (src/src/interlock/socket.ts) ----
    sockets,        \* every SharedSocket start() has created: its transport state
    sharedSocket,   \* this.sharedSocket: 0 = null, else an index into sockets
    isRunning,      \* this.isRunning
    \* ---- SignalHandlers (handlers.ts) ----
    handlers,       \* Map<number, SignalHandler[]>, as a function on SignalCodes
    defaultHandler, \* 0 = null, else a handler id
    \* ---- Tumbler (tumbler.ts) ----
    allowedSignals, \* Set<number> built by the constructor
    stats,          \* { allowed, blocked, byType }
    \* ---- observation of the receive path ----
    delivered,      \* number of 'signal' events the listener has run for
    last,           \* what the listener did for the most recent 'signal' event
    \* ---- codec harness (protocol.ts) ----
    input,          \* the signal or wire sample the codec is applied to
    buffer,         \* the byte buffer handed to decode
    result,         \* the outcome of decode
    pc,             \* position of the codec harness
    \* ---- entry point (index.ts) ----
    heartbeatTimer, \* the module's heartbeatTimer: "null" or "interval"
    \* ---- IntakeDatabase (database/schema.ts) ----
    db,             \* the tables of the database, NoDatabase before it is opened
    \* ---- HttpServer (http/server.ts) ----
    http            \* API_KEY, rateLimitMap, the last request and its answer

meshVars == <<sockets, sharedSocket, isRunning, handlers, defaultHandler,
              allowedSignals, stats, delivered, last, heartbeatTimer, db, http>>
codecVars == <<input, buffer, result, pc>>
vars == <<sockets, sharedSocket, isRunning, handlers, defaultHandler,
          allowedSignals, stats, delivered, last, input, buffer, result, pc,
          heartbeatTimer, db, http>>

\* let dbInstance: DatabaseManager | null = null
NoDatabase == [open |-> FALSE]

\* No HttpServer has been constructed.
NoServer == [listening |-> FALSE]

---------------------------------------------------------------------------
(* Bounds of the model *)

MaxStarts == 2          \* start() calls explored
MaxDeliveries == 2      \* inbound signals explored
MaxRegistrations == 2   \* on() calls explored

---------------------------------------------------------------------------
(* Small helpers *)

Range(s) == {s[i] : i \in 1..Len(s)}

\* The element of a set of one element. Only({f(x) : x \in {e}}) is f(e) with e
\* evaluated once, where LET x == e IN f(x) evaluates e at every use of x.
Only(S) == CHOOSE x \in S : TRUE

Min(a, b) == IF a < b THEN a ELSE b

\* Character codes used by the model, by name.
Ch == [nul |-> 0, space |-> 32, quote |-> 34, comma |-> 44, minus |-> 45,
       dot |-> 46, zero |-> 48, nine |-> 57, colon |-> 58, upA |-> 65,
       upF |-> 70, upX |-> 88, lbracket |-> 91, backslash |-> 92,
       rbracket |-> 93, lowA |-> 97, lowF |-> 102, lowX |-> 120,
       lbrace |-> 123, rbrace |-> 125, replacement |-> 65533]

---------------------------------------------------------------------------
(* Signal registry: protocol.ts SIGNAL_TYPES *)

SIGNAL_TYPES == [DOCK_REQUEST |-> 1, DOCK_APPROVE |-> 2, DOCK_REJECT |-> 3,
                 HEARTBEAT |-> 4, DISCONNECT |-> 5, DISCOVERY |-> 1,
                 SHUTDOWN |-> 5, HEALTH_CHECK |-> 6, HEALTH_RESPONSE |-> 7,
                 CONTENT_CHECKED |-> 16, CONTENT_ADMITTED |-> 32,
                 CONTENT_REJECTED |-> 33, ERROR |-> 240, ERROR_CRITICAL |-> 255]

\* The type codes inbound signals carry in the model: a registered code and one
\* that is not in the registry (0x99).
SignalCodes == {SIGNAL_TYPES.HEARTBEAT, 153}

\* The codes handlers are registered for in the model.
HandledCodes == {SIGNAL_TYPES.HEARTBEAT}

---------------------------------------------------------------------------
(* Tumbler: the whitelist filter *)

\* The value of one character as a digit of the radix, or -1.
DigitValue(c, radix) ==
    LET v == IF c >= Ch.zero /\ c <= Ch.nine THEN c - Ch.zero
             ELSE IF c >= Ch.lowA /\ c <= Ch.lowF THEN c - Ch.lowA + 10
             ELSE IF c >= Ch.upA /\ c <= Ch.upF THEN c - Ch.upA + 10
             ELSE -1
    IN IF v >= 0 /\ v < radix THEN v ELSE -1

\* NaN of parseInt: no type code equals it, but a set holding it is not empty.
NaN == [nan |-> TRUE, n |-> 0]

RECURSIVE ParseDigits(_, _, _, _)
\* The longest prefix of s[i..] that is digits of the radix, accumulated on acc.
ParseDigits(s, i, radix, acc) ==
    IF i > Len(s) \/ DigitValue(s[i], radix) < 0 THEN acc
    ELSE ParseDigits(s, i + 1, radix, acc * radix + DigitValue(s[i], radix))

\* JavaScript parseInt(s, radix) on an unsigned string without leading blanks:
\* an 0x / 0X prefix is skipped when the radix is 16, parsing stops at the first
\* character that is no digit, and NaN results when no digit was read.
ParseInt(s, radix) ==
    LET hasPrefix == /\ radix = 16
                     /\ Len(s) >= 2
                     /\ s[1] = Ch.zero
                     /\ s[2] \in {Ch.lowX, Ch.upX}
        start == IF hasPrefix THEN 3 ELSE 1
    IN IF start > Len(s) \/ DigitValue(s[start], radix) < 0
       THEN NaN
       ELSE [nan |-> FALSE, n |-> ParseDigits(s, start, radix, 0)]

StartsWith0x(s) == Len(s) >= 2 /\ s[1] = Ch.zero /\ s[2] = Ch.lowX

\* The constructor reading every entry as decimal.
TumblerNewDecimal(list) == {ParseInt(list[i], 10) : i \in 1..Len(list)}

\* new Tumbler(allowedSignals): the set of parsed entries.
TumblerNew(list) ==
    {IF StartsWith0x(list[i]) THEN ParseInt(list[i], 16) ELSE ParseInt(list[i], 10)
       : i \in 1..Len(list)}

TumblerHas(set, type) == [nan |-> FALSE, n |-> type] \in set

\* isAllowed without the branch for the empty set.
IsAllowedNoPermissive(set, st, type) ==
    IF TumblerHas(set, type)
    THEN [ret |-> TRUE,
          stats |-> [st EXCEPT !.allowed = @ + 1, !.byType[type] = @ + 1]]
    ELSE [ret |-> FALSE, stats |-> [st EXCEPT !.blocked = @ + 1]]

\* isAllowed counting a rejected signal as allowed too.
IsAllowedCountsAll(set, st, type) ==
    IF set = {}
    THEN [ret |-> TRUE, stats |-> [st EXCEPT !.allowed = @ + 1]]
    ELSE IF TumblerHas(set, type)
    THEN [ret |-> TRUE,
          stats |-> [st EXCEPT !.allowed = @ + 1, !.byType[type] = @ + 1]]
    ELSE [ret |-> FALSE,
          stats |-> [st EXCEPT !.allowed = @ + 1, !.blocked = @ + 1]]

\* Tumbler.isAllowed(type): the returned value and the counters it leaves.
IsAllowed(set, st, type) ==
    IF set = {}
    THEN [ret |-> TRUE, stats |-> [st EXCEPT !.allowed = @ + 1]]
    ELSE IF TumblerHas(set, type)
    THEN [ret |-> TRUE,
          stats |-> [st EXCEPT !.allowed = @ + 1, !.byType[type] = @ + 1]]
    ELSE [ret |-> FALSE, stats |-> [st EXCEPT !.blocked = @ + 1]]

---------------------------------------------------------------------------
(* JavaScript values, as far as the codec meets them.                      *)
(*                                                                         *)
(* A value is a record [k, v]: k names the type, v is a tuple holding the  *)
(* content. Strings are tuples of code points; a number is its sign, the   *)
(* decimal digits of its integer part and the digits of its fraction       *)
(* (without trailing zeros); an object is the tuple of its own properties  *)
(* <<key, value>> in property order.                                       *)

JUndefined == [k |-> "undefined", v |-> <<>>]
JNull == [k |-> "null", v |-> <<>>]
JBool(b) == [k |-> "bool", v |-> <<b>>]
JNum(neg, int, frac) == [k |-> "num", v |-> <<neg, int, frac>>]
JStr(s) == [k |-> "str", v |-> s]
JArr(items) == [k |-> "arr", v |-> items]
JObj(members) == [k |-> "obj", v |-> members]

RECURSIVE NatDigits(_)
\* The decimal digits of a natural number.
NatDigits(n) == IF n < 10 THEN <<n>> ELSE Append(NatDigits(n \div 10), n % 10)

JInt(n) == JNum(FALSE, NatDigits(n), <<>>)

\* ToBoolean: undefined, null, false, 0, -0 and "" are falsy.
Truthy(x) ==
    CASE x.k \in {"undefined", "null"} -> FALSE
      [] x.k = "bool" -> x.v[1]
      [] x.k = "num" -> ~(x.v[2] = <<0>> /\ x.v[3] = <<>>)
      [] x.k = "str" -> x.v # <<>>
      [] OTHER -> TRUE

\* a || b
OrElse(a, b) == IF Truthy(a) THEN a ELSE b

\* Has own property `key` (objects built by JSON.parse or by a literal).
HasKey(x, key) == x.k = "obj" /\ \E i \in 1..Len(x.v) : x.v[i][1] = key

\* x[key] where x is neither null nor undefined: the own property, else
\* undefined (none of the keys the codec reads is inherited from a prototype).
Get(x, key) ==
    IF HasKey(x, key)
    THEN x.v[CHOOSE i \in 1..Len(x.v) : x.v[i][1] = key][2]
    ELSE JUndefined

\* Reading a property of null or undefined throws a TypeError.
CanRead(x) == x.k \notin {"undefined", "null"}

\* Property names and literals of protocol.ts, as code points.
Key == [t |-> <<116>>, s |-> <<115>>, d |-> <<100>>, ts |-> <<116, 115>>,
        type |-> <<116, 121, 112, 101>>,
        source |-> <<115, 111, 117, 114, 99, 101>>,
        payload |-> <<112, 97, 121, 108, 111, 97, 100>>,
        timestamp |-> <<116, 105, 109, 101, 115, 116, 97, 109, 112>>,
        sender |-> <<115, 101, 110, 100, 101, 114>>,
        serverId |-> <<115, 101, 114, 118, 101, 114, 73, 100>>]

\* 'unknown'
Unknown == JStr(<<117, 110, 107, 110, 111, 119, 110>>)

---------------------------------------------------------------------------
(* Buffer <-> string: UTF-8 *)

IsCont(b) == b >= 128 /\ b <= 191

RECURSIVE Flatten(_, _, _)
\* The concatenation of the sequences ss[lo], ..., ss[hi].
Flatten(ss, lo, hi) ==
    IF lo > hi THEN <<>>
    ELSE IF lo = hi THEN ss[lo]
    ELSE LET mid == (lo + hi) \div 2
         IN Flatten(ss, lo, mid) \o Flatten(ss, mid + 1, hi)

\* The second byte of a three-byte sequence led by b[i] is in range.
SecondOfThree(b, i) ==
    /\ i + 1 <= Len(b) /\ IsCont(b[i + 1])
    /\ (b[i] = 224 => b[i + 1] >= 160)
    /\ (b[i] = 237 => b[i + 1] <= 159)

\* The number of bytes the decoder consumes for the byte sequence that starts
\* at position i: a well-formed sequence of one to three bytes, or the longest
\* prefix of one that the buffer holds (four-byte sequences are outside the
\* model: their bytes are taken one by one).
Utf8Length(b, i) ==
    IF b[i] >= 194 /\ b[i] <= 223
    THEN IF i + 1 <= Len(b) /\ IsCont(b[i + 1]) THEN 2 ELSE 1
    ELSE IF b[i] >= 224 /\ b[i] <= 239 /\ SecondOfThree(b, i)
    THEN IF i + 2 <= Len(b) /\ IsCont(b[i + 2]) THEN 3 ELSE 2
    ELSE 1

\* Position i belongs to the sequence that starts one or two bytes before it.
Utf8Inside(b, i) ==
    \E j \in {i - 2, i - 1} : j >= 1 /\ b[j] >= 194 /\ j + Utf8Length(b, j) > i

\* The code point decoded at position i: U+FFFD for a sequence that is not
\* well formed, nothing for a byte inside a sequence.
Utf8CodePoint(b, i) ==
    IF Utf8Inside(b, i) THEN <<>>
    ELSE IF b[i] < 128 THEN <<b[i]>>
    ELSE IF b[i] <= 223 /\ Utf8Length(b, i) = 2
    THEN <<(b[i] - 192) * 64 + (b[i + 1] - 128)>>
    ELSE IF Utf8Length(b, i) = 3
    THEN <<(b[i] - 224) * 4096 + (b[i + 1] - 128) * 64 + (b[i + 2] - 128)>>
    ELSE <<Ch.replacement>>

\* buffer.toString('utf-8')
Utf8Decode(buf) ==
    Only({Flatten([i \in 1..Len(b) |-> Utf8CodePoint(b, i)], 1, Len(b)) :
            b \in {buf}})

\* The bytes of one code point below U+10000.
Utf8Bytes(c) ==
    IF c < 128 THEN <<c>>
    ELSE IF c < 2048 THEN <<192 + (c \div 64), 128 + (c % 64)>>
    ELSE <<224 + (c \div 4096), 128 + ((c \div 64) % 64), 128 + (c % 64)>>

\* Buffer.from(str, 'utf-8')
Utf8Encode(str) ==
    Only({Flatten([i \in 1..Len(s) |-> Utf8Bytes(s[i])], 1, Len(s)) :
            s \in {str}})

---------------------------------------------------------------------------
(* JSON.parse *)

ParseFail == [ok |-> FALSE, val |-> JUndefined, pos |-> 0]
Parsed(val, pos) == [ok |-> TRUE, val |-> val, pos |-> pos]

IsWs(c) == c \in {32, 9, 10, 13}
IsDigit(c) == c >= Ch.zero /\ c <= Ch.nine

At(s, i) == IF i >= 1 /\ i <= Len(s) THEN s[i] ELSE -1

RECURSIVE SkipWs(_, _)
SkipWs(s, i) == IF IsWs(At(s, i)) THEN SkipWs(s, i + 1) ELSE i

RECURSIVE DigitRun(_, _)
\* The digits of the longest run of decimal digits at position i.
DigitRun(s, i) ==
    IF IsDigit(At(s, i)) THEN <<s[i] - Ch.zero>> \o DigitRun(s, i + 1) ELSE <<>>

RECURSIVE StripTrailingZeros(_)
StripTrailingZeros(d) ==
    IF d # <<>> /\ d[Len(d)] = 0 THEN StripTrailingZeros(SubSeq(d, 1, Len(d) - 1))
    ELSE d

\* number = -? (0 | [1-9][0-9]*) (. [0-9]+)?   (the model reads no exponent)
ParseNumber(s, i) ==
    LET neg == At(s, i) = Ch.minus
        j == IF neg THEN i + 1 ELSE i
        int == IF At(s, j) = Ch.zero THEN <<0>> ELSE DigitRun(s, j)
        k == j + Len(int)
        hasFrac == At(s, k) = Ch.dot
        frac == IF hasFrac THEN DigitRun(s, k + 1) ELSE <<>>
    IN IF int = <<>> \/ (hasFrac /\ frac = <<>>) THEN ParseFail
       ELSE Parsed(JNum(neg, int, StripTrailingZeros(frac)),
                   IF hasFrac THEN k + 1 + Len(frac) ELSE k)

HexValue(c) == DigitValue(c, 16)

\* The character an escape \c stands for, or -1.
Unescape(c) ==
    CASE c = 34 -> 34
      [] c = 92 -> 92
      [] c = 47 -> 47
      [] c = 98 -> 8
      [] c = 102 -> 12
      [] c = 110 -> 10
      [] c = 114 -> 13
      [] c = 116 -> 9
      [] OTHER -> -1

RECURSIVE ParseChars(_, _, _)
\* The characters of a string literal from position i (after the opening
\* quote) up to the closing quote, appended to acc.
ParseChars(s, i, acc) ==
    LET c == At(s, i)
    IN IF c < 32 THEN ParseFail
       ELSE IF c = Ch.quote THEN Parsed(JStr(acc), i + 1)
       ELSE IF c # Ch.backslash THEN ParseChars(s, i + 1, Append(acc, c))
       ELSE IF At(s, i + 1) = 117
       THEN LET h == [n \in 1..4 |-> HexValue(At(s, i + 1 + n))]
            IN IF \E n \in 1..4 : h[n] < 0 THEN ParseFail
               ELSE ParseChars(s, i + 6,
                       Append(acc, h[1] * 4096 + h[2] * 256 + h[3] * 16 + h[4]))
       ELSE IF Unescape(At(s, i + 1)) < 0 THEN ParseFail
       ELSE ParseChars(s, i + 2, Append(acc, Unescape(At(s, i + 1))))

ParseString(s, i) == IF At(s, i) = Ch.quote THEN ParseChars(s, i + 1, <<>>) ELSE ParseFail

\* The literal `word` stands at position i.
Literal(s, i, word) ==
    /\ i + Len(word) - 1 <= Len(s)
    /\ SubSeq(s, i, i + Len(word) - 1) = word

\* An object gets the property key: an existing property keeps its place.
PutMember(members, key, val) ==
    IF \E n \in 1..Len(members) : members[n][1] = key
    THEN [n \in 1..Len(members) |->
             IF members[n][1] = key THEN <<key, val>> ELSE members[n]]
    ELSE Append(members, <<key, val>>)

RECURSIVE ParseValue(_, _)
RECURSIVE ParseMembers(_, _, _)
RECURSIVE ParseElements(_, _, _)

\* members after `{` or `,`: "key" : value, then `,` or `}`.
ParseMembers(s, i, acc) ==
    Only({
        IF ~key.ok THEN ParseFail
        ELSE IF At(s, SkipWs(s, key.pos)) # Ch.colon THEN ParseFail
        ELSE Only({
            IF ~val.ok THEN ParseFail
            ELSE Only({
                IF At(s, e) = Ch.comma THEN ParseMembers(s, e + 1, m)
                ELSE IF At(s, e) = Ch.rbrace THEN Parsed(JObj(m), e + 1)
                ELSE ParseFail
                : e \in {SkipWs(s, val.pos)},
                  m \in {PutMember(acc, key.val.v, val.val)}})
            : val \in {ParseValue(s, SkipWs(s, SkipWs(s, key.pos) + 1))}})
        : key \in {ParseString(s, SkipWs(s, i))}})

\* elements after `[` or `,`: value, then `,` or `]`.
ParseElements(s, i, acc) ==
    Only({
        IF ~val.ok THEN ParseFail
        ELSE Only({
            IF At(s, e) = Ch.comma THEN ParseElements(s, e + 1, m)
            ELSE IF At(s, e) = Ch.rbracket THEN Parsed(JArr(m), e + 1)
            ELSE ParseFail
            : e \in {SkipWs(s, val.pos)}, m \in {Append(acc, val.val)}})
        : val \in {ParseValue(s, SkipWs(s, i))}})

ParseValue(s, i) ==
    LET c == At(s, i)
    IN IF c = Ch.lbrace
       THEN IF At(s, SkipWs(s, i + 1)) = Ch.rbrace
            THEN Parsed(JObj(<<>>), SkipWs(s, i + 1) + 1)
            ELSE ParseMembers(s, i + 1, <<>>)
       ELSE IF c = Ch.lbracket
       THEN IF At(s, SkipWs(s, i + 1)) = Ch.rbracket
            THEN Parsed(JArr(<<>>), SkipWs(s, i + 1) + 1)
            ELSE ParseElements(s, i + 1, <<>>)
       ELSE IF c = Ch.quote THEN ParseString(s, i)
       ELSE IF c = Ch.minus \/ IsDigit(c) THEN ParseNumber(s, i)
       ELSE IF Literal(s, i, <<116, 114, 117, 101>>) THEN Parsed(JBool(TRUE), i + 4)
       ELSE IF Literal(s, i, <<102, 97, 108, 115, 101>>) THEN Parsed(JBool(FALSE), i + 5)
       ELSE IF Literal(s, i, <<110, 117, 108, 108>>) THEN Parsed(JNull, i + 4)
       ELSE ParseFail

NoResult == [st |-> "none", val |-> JUndefined]
Returned(val) == [st |-> "returned", val |-> val]
Threw == [st |-> "threw", val |-> JUndefined]

\* JSON.parse(str): the value, or a SyntaxError.
JsonParse(str) ==
    Only({
        Only({IF r.ok /\ SkipWs(s, r.pos) = Len(s) + 1 THEN Returned(r.val)
              ELSE Threw
              : r \in {ParseValue(s, SkipWs(s, 1))}})
        : s \in {str}})

---------------------------------------------------------------------------
(* JSON.stringify *)

HexChar(n) == IF n < 10 THEN Ch.zero + n ELSE Ch.lowA + n - 10

\* Every character written as it is.
EscapeCharNone(c) == <<c>>

\* The characters JSON.stringify writes for one character of a string.
EscapeChar(c) ==
    CASE c = 34 -> <<92, 34>>
      [] c = 92 -> <<92, 92>>
      [] c = 8 -> <<92, 98>>
      [] c = 12 -> <<92, 102>>
      [] c = 10 -> <<92, 110>>
      [] c = 13 -> <<92, 114>>
      [] c = 9 -> <<92, 116>>
      [] c < 32 /\ c \notin {8, 9, 10, 12, 13} ->
            <<92, 117, 48, 48, HexChar(c \div 16), HexChar(c % 16)>>
      [] OTHER -> <<c>>

\* The string literal JSON.stringify writes for a string.
Quote(s) ==
    <<Ch.quote>> \o Flatten([i \in 1..Len(s) |-> EscapeChar(s[i])], 1, Len(s))
      \o <<Ch.quote>>

DigitChars(d) == [i \in 1..Len(d) |-> Ch.zero + d[i]]

NumberText(v) ==
    LET zero == v[2] = <<0>> /\ v[3] = <<>>
    IN (IF v[1] /\ ~zero THEN <<Ch.minus>> ELSE <<>>)
       \o DigitChars(v[2])
       \o (IF v[3] = <<>> THEN <<>> ELSE <<Ch.dot>> \o DigitChars(v[3]))

RECURSIVE Stringify(_)
RECURSIVE StringifyMembers(_, _, _)
RECURSIVE StringifyItems(_, _)

\* The properties from position i on, joined by commas; a property whose
\* value is undefined is left out.
StringifyMembers(m, i, first) ==
    IF i > Len(m) THEN <<>>
    ELSE IF m[i][2].k = "undefined" THEN StringifyMembers(m, i + 1, first)
    ELSE (IF first THEN <<>> ELSE <<Ch.comma>>)
         \o Quote(m[i][1]) \o <<Ch.colon>> \o Stringify(m[i][2])
         \o StringifyMembers(m, i + 1, FALSE)

\* The elements from position i on, joined by commas; undefined is written
\* as null.
StringifyItems(a, i) ==
    IF i > Len(a) THEN <<>>
    ELSE (IF i = 1 THEN <<>> ELSE <<Ch.comma>>)
         \o (IF a[i].k = "undefined" THEN <<110, 117, 108, 108>> ELSE Stringify(a[i]))
         \o StringifyItems(a, i + 1)

\* JSON.stringify(x) for a value that is not undefined.
Stringify(x) ==
    CASE x.k = "null" -> <<110, 117, 108, 108>>
      [] x.k = "bool" -> IF x.v[1] THEN <<116, 114, 117, 101>>
                                   ELSE <<102, 97, 108, 115, 101>>
      [] x.k = "num" -> NumberText(x.v)
      [] x.k = "str" -> Quote(x.v)
      [] x.k = "arr" -> <<Ch.lbracket>> \o StringifyItems(x.v, 1) \o <<Ch.rbracket>>
      [] x.k = "obj" -> <<Ch.lbrace>> \o StringifyMembers(x.v, 1, TRUE) \o <<Ch.rbrace>>

---------------------------------------------------------------------------
(* protocol.ts: encode, decodeBinary, decodeText, decode *)

\* A DecodedMessage { type, serverId, data, timestamp }.
Message(type, serverId, data, timestamp) ==
    [k |-> "msg", v |-> <<type, serverId, data, timestamp>>]

MsgType(m) == m.v[1]
MsgServerId(m) == m.v[2]
MsgData(m) == m.v[3]
MsgTimestamp(m) == m.v[4]

\* encode(message) at time `now` (Date.now(), a number value).
Encode(message, now) ==
    LET payload == JObj(<< <<Key.t, message.type>>,
                           <<Key.s, message.serverId>>,
                           <<Key.d, OrElse(message.data, JObj(<<>>))>>,
                           <<Key.ts, now>> >>)
    IN Utf8Encode(Stringify(payload))

\* buffer.readUInt16BE(offset)
ReadUInt16BE(b, offset) == b[offset + 1] * 256 + b[offset + 2]

\* buffer.readUInt32BE(offset), as two 16-bit halves (the value is
\* hi * 65536 + lo).
ReadUInt32BE(b, offset) ==
    [hi |-> b[offset + 1] * 256 + b[offset + 2],
     lo |-> b[offset + 3] * 256 + b[offset + 4]]

\* The comparison on the low 16 bits only.
U32GreaterLow(x, n) == x.lo > n

\* x > n for a 32-bit value x and 0 <= n < 65536
U32Greater(x, n) == x.hi > 0 \/ x.lo > n

\* buffer.slice(start, start + n) for a 32-bit n: the end is clamped to the
\* length of the buffer.
BufferSlice(b, start, n) ==
    LET end == IF n.hi > 0 THEN Len(b) ELSE Min(start + n.lo, Len(b))
    IN SubSeq(b, start + 1, end)

RECURSIVE U32Digits(_, _)
\* The decimal digits of hi * 65536 + lo.
U32Digits(hi, lo) ==
    IF hi = 0 /\ lo < 10 THEN <<lo>>
    ELSE LET t == (hi % 10) * 65536 + lo
         IN Append(U32Digits(hi \div 10, t \div 10), t % 10)

\* The header seconds taken as milliseconds.
TimesOne(x) == JNum(FALSE, U32Digits(x.hi, x.lo), <<>>)

\* timestamp * 1000, as a number value
TimesThousand(x) ==
    IF x.hi = 0 /\ x.lo = 0 THEN JInt(0)
    ELSE JNum(FALSE, U32Digits(x.hi, x.lo) \o <<0, 0, 0>>, <<>>)

\* `catch { return null }`
CatchNull(o) == IF o.st = "threw" THEN Returned(JNull) ELSE o

\* payload.sender alone, without the fallbacks.
SenderOnly(payload) == Get(payload, Key.sender)

\* payload.sender || payload.serverId || 'unknown'
SenderOf(payload) ==
    OrElse(Get(payload, Key.sender), OrElse(Get(payload, Key.serverId), Unknown))

\* The type check that accepts the codes of the registry only.
KnownSignalType(signalType) ==
    signalType \in {SIGNAL_TYPES[name] : name \in DOMAIN SIGNAL_TYPES}

\* !(signalType === 0 || signalType > 0xFF)
ValidSignalType(signalType) == ~(signalType = 0 \/ signalType > 255)

\* The try block of decodeBinary.
DecodeBinaryTry(b) ==
    IF Len(b) < 12 THEN Threw
    ELSE LET signalType == ReadUInt16BE(b, 0)
             payloadLength == ReadUInt32BE(b, 4)
             timestamp == ReadUInt32BE(b, 8)
         IN IF ~ValidSignalType(signalType) THEN Returned(JNull)
            ELSE IF U32Greater(payloadLength, Len(b) - 12) THEN Returned(JNull)
            ELSE LET payloadStr == Utf8Decode(BufferSlice(b, 12, payloadLength))
                 IN Only({
                        IF parsed.st = "threw" THEN Threw
                        ELSE IF ~CanRead(parsed.val) THEN Threw
                        ELSE Returned(Message(
                                JInt(signalType),
                                SenderOf(parsed.val),
                                parsed.val,
                                TimesThousand(timestamp)))
                        : parsed \in {JsonParse(payloadStr)}})

\* decodeBinary without its catch clause.
DecodeBinaryNoCatch(b) ==
    IF Len(b) < 12 THEN Returned(JNull) ELSE DecodeBinaryTry(b)

\* decodeBinary(buffer): a DecodedMessage or null.
DecodeBinary(b) ==
    IF Len(b) < 12 THEN Returned(JNull) ELSE CatchNull(DecodeBinaryTry(b))

\* payload.type without the typeof test.
TypeUnchecked(x) == x

\* typeof payload.type === 'number' ? payload.type : 0
TypeOrZero(x) == IF x.k = "num" THEN x ELSE JInt(0)

\* The try block of decodeText.
DecodeTextTry(b) ==
    Only({
        IF At(str, 1) # Ch.lbrace THEN Returned(JNull)
        ELSE Only({
            IF parsed.st = "threw" THEN Threw
            ELSE IF parsed.val.k \notin {"obj", "arr"} THEN Threw
            ELSE LET payload == parsed.val
                 IN IF HasKey(payload, Key.t) /\ HasKey(payload, Key.s)
                    THEN Returned(Message(Get(payload, Key.t), Get(payload, Key.s),
                                          Get(payload, Key.d), Get(payload, Key.ts)))
                    ELSE IF HasKey(payload, Key.type) /\ HasKey(payload, Key.source)
                    THEN Returned(Message(
                            TypeOrZero(Get(payload, Key.type)),
                            Get(payload, Key.source),
                            Get(payload, Key.payload),
                            Get(payload, Key.timestamp)))
                    ELSE Returned(JNull)
            : parsed \in {JsonParse(str)}})
        : str \in {Utf8Decode(b)}})

\* decodeText without its catch clause.
DecodeTextNoCatch(b) == DecodeTextTry(b)

\* decodeText(buffer): a DecodedMessage or null.
DecodeText(b) == CatchNull(DecodeTextTry(b))

\* decode without its fall-back to the text formats.
DecodeBinaryOnly(b) == DecodeBinary(b)

\* decode(buffer): the binary format first, then the text formats.
Decode(b) ==
    Only({IF binaryResult.st = "threw" THEN Threw
          ELSE IF binaryResult.val # JNull THEN binaryResult
          ELSE DecodeText(b)
          : binaryResult \in {DecodeBinary(b)}})

---------------------------------------------------------------------------
(* SignalHandlers: the dispatch registry *)

\* What one invocation of a handler does: it returns, it throws a value whose
\* .message can be read (an Error, a string, a number), or it throws null or
\* undefined. The model names a handler function by what it does.
Outcomes == {"returns", "throwsError", "throwsNullish"}

HandlerIds == Outcomes

NoHandler == "none"

HandlerEvent(op, h) == [op |-> op, h |-> h]

\* `catch (error) { console.error(..., (error as Error).message) }`: whether
\* control leaves the catch clause normally. Reading .message of null or
\* undefined throws a TypeError from inside the catch clause.
CatchLogs(thrown) == thrown # "throwsNullish"

\* try { handler(message, rinfo) } catch (error) { ... }: TRUE when control
\* reaches the statement after it.
TryHandler(h) == h = "returns" \/ CatchLogs(h)

RECURSIVE RouteLoop(_, _, _)
\* for (const handler of handlers) { try ... catch ... } from position i on.
RouteLoop(list, i, events) ==
    IF i > Len(list) THEN [events |-> events, raised |-> FALSE]
    ELSE LET ev == Append(events, HandlerEvent("handler", list[i]))
         IN IF TryHandler(list[i])
            THEN RouteLoop(list, i + 1, ev)
            ELSE [events |-> ev, raised |-> TRUE]

\* route without its else-if branch: the handlers of the type only.
RouteNoDefault(hmap, dflt, type) == RouteLoop(hmap[type], 1, <<>>)

\* SignalHandlers.route(message, rinfo): the invocations it makes, in order, and
\* whether an exception leaves route.
Route(hmap, dflt, type) ==
    LET list == hmap[type]
    IN IF Len(list) > 0
       THEN RouteLoop(list, 1, <<>>)
       ELSE IF dflt # NoHandler
       THEN [events |-> <<HandlerEvent("default", dflt)>>,
             raised |-> ~TryHandler(dflt)]
       ELSE [events |-> <<>>, raised |-> FALSE]

\* SignalHandlers.clear()
NoHandlers == [t \in SignalCodes |-> <<>>]

RECURSIVE SumLen(_, _)
SumLen(hmap, types) ==
    IF types = {} THEN 0
    ELSE LET t == CHOOSE x \in types : TRUE
         IN Len(hmap[t]) + SumLen(hmap, types \ {t})

Registrations == SumLen(handlers, SignalCodes)

---------------------------------------------------------------------------
(* InterLockSocket *)

\* config.allowedSignals of the socket under test, as strings of characters:
\* [], ["0x04"], ["153", "0X10"]
AllowLists ==
    { <<>>,
      << <<48, 120, 48, 52>> >>,
      << <<49, 53, 51>>, <<48, 88, 49, 48>> >> }

ZeroStats == [allowed |-> 0, blocked |-> 0, byType |-> [t \in SignalCodes |-> 0]]

\* The record of one run of the listener: the signal's type, the registry and
\* the counters it found, the calls it made in order, and whether an exception
\* left it.
NoDelivery == [type |-> 0, registered |-> <<>>, statsBefore |-> ZeroStats,
               events |-> <<>>, raised |-> FALSE]

\* The listener with the early return of the whitelist check left out.
ListenerNoReturn(set, st, hmap, dflt, type) ==
    LET a == IsAllowed(set, st, type)
        check == <<HandlerEvent("isAllowed", IF a.ret THEN "true" ELSE "false")>>
        r == Route(hmap, dflt, type)
    IN [stats |-> a.stats, events |-> check \o r.events, raised |-> r.raised]

\* The 'signal' listener installed by start(): whitelist check, then routing.
\* The result is the counters it leaves and the calls it made, in order.
Listener(set, st, hmap, dflt, type) ==
    LET a == IsAllowed(set, st, type)
        check == <<HandlerEvent("isAllowed", IF a.ret THEN "true" ELSE "false")>>
    IN IF ~a.ret
       THEN [stats |-> a.stats, events |-> check, raised |-> FALSE]
       ELSE LET r == Route(hmap, dflt, type)
            IN [stats |-> a.stats, events |-> check \o r.events, raised |-> r.raised]

CodecUnused ==
    /\ input = [kind |-> "none"]
    /\ buffer = <<>>
    /\ result = NoResult
    /\ pc = "mesh"

\* No start() or stop() of the socket is awaiting its transport. The callers of
\* the socket (startLayers, stopLayers) await each call before the next.
Settled == \A s \in 1..Len(sockets) : sockets[s] \in {"listening", "failed", "closed"}

\* new InterLockSocket(config)
Init ==
    /\ sockets = <<>>
    /\ sharedSocket = 0
    /\ isRunning = FALSE
    /\ handlers = NoHandlers
    /\ defaultHandler = NoHandler
    /\ \E list \in AllowLists : allowedSignals = TumblerNew(list)
    /\ stats = ZeroStats
    /\ delivered = 0
    /\ last = NoDelivery
    /\ heartbeatTimer = "null"
    /\ db = NoDatabase
    /\ http = NoServer
    /\ CodecUnused

\* on(type, handler)
On(type, h) ==
    /\ Registrations < MaxRegistrations
    /\ handlers' = [handlers EXCEPT ![type] = Append(@, h)]
    /\ UNCHANGED <<sockets, sharedSocket, isRunning, defaultHandler,
                   allowedSignals, stats, delivered, last>>
    /\ UNCHANGED <<codecVars, heartbeatTimer, db, http>>

\* setDefaultHandler(handler)
SetDefaultHandler(h) ==
    /\ defaultHandler # h
    /\ defaultHandler' = h
    /\ UNCHANGED <<sockets, sharedSocket, isRunning, handlers,
                   allowedSignals, stats, delivered, last>>
    /\ UNCHANGED <<codecVars, heartbeatTimer, db, http>>

\* start(), up to `await this.sharedSocket.start()`: a new SharedSocket replaces
\* this.sharedSocket, the 'signal' listener is attached to it, binding begins.
Start ==
    /\ Settled
    /\ Len(sockets) < MaxStarts
    /\ sockets' = Append(sockets, "binding")
    /\ sharedSocket' = Len(sockets) + 1
    /\ UNCHANGED <<isRunning, handlers, defaultHandler, allowedSignals, stats,
                   delivered, last>>
    /\ UNCHANGED <<codecVars, heartbeatTimer, db, http>>

\* The awaited SharedSocket.start() resolves: start() logs and sets isRunning.
StartResolves(s) ==
    /\ sockets[s] = "binding"
    /\ sockets' = [sockets EXCEPT ![s] = "listening"]
    /\ isRunning' = TRUE
    /\ UNCHANGED <<sharedSocket, handlers, defaultHandler, allowedSignals, stats,
                   delivered, last>>
    /\ UNCHANGED <<codecVars, heartbeatTimer, db, http>>

\* The awaited SharedSocket.start() rejects (the bind failed): start() rethrows
\* to its caller and isRunning is not touched.
StartRejects(s) ==
    /\ sockets[s] = "binding"
    /\ sockets' = [sockets EXCEPT ![s] = "failed"]
    /\ UNCHANGED <<sharedSocket, isRunning, handlers, defaultHandler,
                   allowedSignals, stats, delivered, last>>
    /\ UNCHANGED <<codecVars, heartbeatTimer, db, http>>

\* The 'signal' listener runs for one inbound signal of a transport that is
\* bound (or is being closed).
Deliver(s, type) ==
    /\ delivered < MaxDeliveries
    /\ sockets[s] \in {"listening", "closing"}
    /\ LET r == Listener(allowedSignals, stats, handlers, defaultHandler, type)
       IN /\ stats' = r.stats
          /\ last' = [type |-> type, registered |-> handlers[type],
                       statsBefore |-> stats, events |-> r.events,
                       raised |-> r.raised]
    /\ delivered' = delivered + 1
    /\ UNCHANGED <<sockets, sharedSocket, isRunning, handlers, defaultHandler,
                   allowedSignals>>
    /\ UNCHANGED <<codecVars, heartbeatTimer, db, http>>

\* stop() without its call of handlers.clear().
StopKeepsRegistry ==
    /\ Settled
    /\ sharedSocket # 0
    /\ sockets' = [sockets EXCEPT ![sharedSocket] =
                      IF @ = "listening" THEN "closing" ELSE "closingDead"]
    /\ UNCHANGED <<sharedSocket, isRunning, handlers, defaultHandler,
                   allowedSignals, stats, delivered, last>>
    /\ UNCHANGED <<codecVars, heartbeatTimer, db, http>>

\* stop(), up to `await this.sharedSocket.stop()`: the registry is cleared and
\* the transport this.sharedSocket refers to starts closing ("closingDead" when
\* it was never bound or is closed already).
Stop ==
    /\ Settled
    /\ sharedSocket # 0
    /\ handlers' = NoHandlers
    /\ defaultHandler' = NoHandler
    /\ sockets' = [sockets EXCEPT ![sharedSocket] =
                      IF @ = "listening" THEN "closing" ELSE "closingDead"]
    /\ UNCHANGED <<sharedSocket, isRunning, allowedSignals, stats, delivered, last>>
    /\ UNCHANGED <<codecVars, heartbeatTimer, db, http>>

\* The awaited SharedSocket.stop() resolves: stop() logs and clears isRunning.
StopResolves(s) ==
    /\ sockets[s] \in {"closing", "closingDead"}
    /\ sockets' = [sockets EXCEPT ![s] = "closed"]
    /\ isRunning' = FALSE
    /\ UNCHANGED <<sharedSocket, handlers, defaultHandler, allowedSignals, stats,
                   delivered, last>>
    /\ UNCHANGED <<codecVars, heartbeatTimer, db, http>>

Next ==
    \/ \E t \in HandledCodes, h \in HandlerIds : On(t, h)
    \/ \E h \in HandlerIds : SetDefaultHandler(h)
    \/ Start
    \/ \E s \in 1..Len(sockets) : StartResolves(s)
    \/ \E s \in 1..Len(sockets) : StartRejects(s)
    \/ \E s \in 1..Len(sockets), t \in SignalCodes : Deliver(s, t)
    \/ Stop
    \/ \E s \in 1..Len(sockets) : StopResolves(s)

Spec == Init /\ [][Next]_vars

---------------------------------------------------------------------------
(* The receive path: claims C1 - C3 *)

IsAllowedTrue == HandlerEvent("isAllowed", "true")
IsAllowedFalse == HandlerEvent("isAllowed", "false")

IsInvocation(e) == e.op \in {"handler", "default"}

RECURSIVE InvokedFrom(_, _)
\* The handlers the events from position i on invoke, in order.
InvokedFrom(events, i) ==
    IF i > Len(events) THEN <<>>
    ELSE IF IsInvocation(events[i])
    THEN <<events[i].h>> \o InvokedFrom(events, i + 1)
    ELSE InvokedFrom(events, i + 1)

Invoked(d) == InvokedFrom(d.events, 1)

\* The configured whitelist admits the type (read off the configuration, not
\* off the filter's answer).
ConfigAdmits(type) ==
    \/ allowedSignals = {}
    \/ \E e \in allowedSignals : ~e.nan /\ e.n = type

\* C1 (state part): in every run of the listener each handler invocation comes
\* after an isAllowed call that returned true for that signal, the signal's
\* type is one the whitelist admits, and a rejected signal leads to no
\* invocation and to exactly one more blocked signal in the counters.
C1_Invocations ==
    /\ \A i \in 1..Len(last.events) :
          IsInvocation(last.events[i]) =>
             /\ \E j \in 1..(i - 1) : last.events[j] = IsAllowedTrue
             /\ ConfigAdmits(last.type)
    /\ (delivered > 0 /\ ~ConfigAdmits(last.type)) =>
          /\ last.events = <<IsAllowedFalse>>
          /\ ~last.raised
          /\ stats.blocked >= 1

\* C1 (step part): the step in which a signal is rejected changes nothing but
\* the blocked counter (and the observation of that step).
C1_RejectStep ==
    (delivered' = delivered + 1 /\ ~ConfigAdmits(last'.type)) =>
        /\ stats' = [stats EXCEPT !.blocked = @ + 1]
        /\ UNCHANGED <<sockets, sharedSocket, isRunning, handlers,
                       defaultHandler, allowedSignals>>

\* C1: in the receive path no registered or default handler is ever invoked
\* for an inbound signal whose type the admission filter rejects: every handler
\* invocation is preceded by an isAllowed call that returned true for that
\* same signal, and a rejected signal only increments the blocked counter.
C1_FilterBeforeHandlers == []C1_Invocations /\ [][C1_RejectStep]_vars

\* A signal whose type has a registered handler was rejected by the filter.
C1_Witness ==
    /\ delivered > 0
    /\ last.events = <<IsAllowedFalse>>
    /\ Len(last.registered) > 0
    /\ stats.blocked = last.statsBefore.blocked + 1

\* C2: when several handlers are registered for the same type, routing one
\* signal of that type invokes each of them exactly once, in registration
\* order, and a handler that throws does not prevent the handlers registered
\* after it from being invoked for that signal.
C2_EachOnceInOrder ==
    (delivered > 0 /\ ConfigAdmits(last.type) /\ Len(last.registered) >= 2) =>
        Invoked(last) = last.registered

\* C3: route never raises to its caller: whatever value a registered handler
\* or the default handler throws, the failure is caught inside route and the
\* receive loop continues with the next signal.
C3_RouteNeverRaises == ~last.raised

---------------------------------------------------------------------------
(* Wire samples *)

\* Whole-buffer samples: the bytes, whether the bytes are a JSON text and the
\* value it denotes, the text format the sample is written in (A, B or none)
\* and the state of that format's sender field.
TextSamples ==
    { \* {"t":4,"s":"node-a","d":{"k":1},"ts":1700000000123}
      [kind |-> "text", bytes |-> <<123, 34, 116, 34, 58, 52, 44, 34, 115,
       34, 58, 34, 110, 111, 100, 101, 45, 97, 34, 44, 34, 100, 34, 58, 123,
       34, 107, 34, 58, 49, 125, 44, 34, 116, 115, 34, 58, 49, 55, 48, 48, 48,
       48, 48, 48, 48, 48, 49, 50, 51, 125>>, json |-> TRUE,
       value |-> JObj(<<<<<<116>>, JNum(FALSE, <<4>>, <<>>)>>, <<<<115>>,
       JStr(<<110, 111, 100, 101, 45, 97>>)>>, <<<<100>>, JObj(<<<<<<107>>,
       JNum(FALSE, <<1>>, <<>>)>>>>)>>, <<<<116, 115>>, JNum(FALSE, <<1, 7, 0,
       0, 0, 0, 0, 0, 0, 0, 1, 2, 3>>, <<>>)>>>>), format |-> "A",
       sender |-> "present"],
      \* {"t":4,"s":"","d":{},"ts":5}
      [kind |-> "text", bytes |-> <<123, 34, 116, 34, 58, 52, 44, 34, 115,
       34, 58, 34, 34, 44, 34, 100, 34, 58, 123, 125, 44, 34, 116, 115, 34,
       58, 53, 125>>, json |-> TRUE, value |-> JObj(<<<<<<116>>, JNum(FALSE,
       <<4>>, <<>>)>>, <<<<115>>, JStr(<<>>)>>, <<<<100>>, JObj(<<>>)>>,
       <<<<116, 115>>, JNum(FALSE, <<5>>, <<>>)>>>>), format |-> "A",
       sender |-> "empty"],
      \* {"t":4,"d":{},"ts":5}
      [kind |-> "text", bytes |-> <<123, 34, 116, 34, 58, 52, 44, 34, 100,
       34, 58, 123, 125, 44, 34, 116, 115, 34, 58, 53, 125>>, json |-> TRUE,
       value |-> JObj(<<<<<<116>>, JNum(FALSE, <<4>>, <<>>)>>, <<<<100>>,
       JObj(<<>>)>>, <<<<116, 115>>, JNum(FALSE, <<5>>, <<>>)>>>>),
       format |-> "A", sender |-> "missing"],
      \* {"t":"4","s":7}
      [kind |-> "text", bytes |-> <<123, 34, 116, 34, 58, 34, 52, 34, 44, 34,
       115, 34, 58, 55, 125>>, json |-> TRUE, value |-> JObj(<<<<<<116>>,
       JStr(<<52>>)>>, <<<<115>>, JNum(FALSE, <<7>>, <<>>)>>>>),
       format |-> "A", sender |-> "present"],
      \* {"s":"a","t":1.5}
      [kind |-> "text", bytes |-> <<123, 34, 115, 34, 58, 34, 97, 34, 44, 34,
       116, 34, 58, 49, 46, 53, 125>>, json |-> TRUE,
       value |-> JObj(<<<<<<115>>, JStr(<<97>>)>>, <<<<116>>, JNum(FALSE,
       <<1>>, <<5>>)>>>>), format |-> "A", sender |-> "present"],
      \* {"t":null,"s":null}
      [kind |-> "text", bytes |-> <<123, 34, 116, 34, 58, 110, 117, 108, 108,
       44, 34, 115, 34, 58, 110, 117, 108, 108, 125>>, json |-> TRUE,
       value |-> JObj(<<<<<<116>>, JNull>>, <<<<115>>, JNull>>>>),
       format |-> "A", sender |-> "present"],
      \* { "t" : 4 , "s" : "a" }
      [kind |-> "text", bytes |-> <<123, 32, 34, 116, 34, 32, 58, 32, 52, 32,
       44, 32, 34, 115, 34, 32, 58, 32, 34, 97, 34, 32, 125>>, json |-> TRUE,
       value |-> JObj(<<<<<<116>>, JNum(FALSE, <<4>>, <<>>)>>, <<<<115>>,
       JStr(<<97>>)>>>>), format |-> "A", sender |-> "present"],
      \*  {"t":4,"s":"a"}
      [kind |-> "text", bytes |-> <<32, 123, 34, 116, 34, 58, 52, 44, 34,
       115, 34, 58, 34, 97, 34, 125>>, json |-> TRUE,
       value |-> JObj(<<<<<<116>>, JNum(FALSE, <<4>>, <<>>)>>, <<<<115>>,
       JStr(<<97>>)>>>>), format |-> "none", sender |-> "present"],
      \* {"t":4,"s":"a"}x
      [kind |-> "text", bytes |-> <<123, 34, 116, 34, 58, 52, 44, 34, 115,
       34, 58, 34, 97, 34, 125, 120>>, json |-> FALSE, value |-> JUndefined,
       format |-> "none", sender |-> "present"],
      \* {"t":4,"s":"a"}\x0a
      [kind |-> "text", bytes |-> <<123, 34, 116, 34, 58, 52, 44, 34, 115,
       34, 58, 34, 97, 34, 125, 10>>, json |-> TRUE,
       value |-> JObj(<<<<<<116>>, JNum(FALSE, <<4>>, <<>>)>>, <<<<115>>,
       JStr(<<97>>)>>>>), format |-> "A", sender |-> "present"],
      \* {"t":4,"s":"a","t":5}
      [kind |-> "text", bytes |-> <<123, 34, 116, 34, 58, 52, 44, 34, 115,
       34, 58, 34, 97, 34, 44, 34, 116, 34, 58, 53, 125>>, json |-> TRUE,
       value |-> JObj(<<<<<<116>>, JNum(FALSE, <<5>>, <<>>)>>, <<<<115>>,
       JStr(<<97>>)>>>>), format |-> "A", sender |-> "present"],
      \* {"t":4,"s":"a\"b\\c\u0041\n"}
      [kind |-> "text", bytes |-> <<123, 34, 116, 34, 58, 52, 44, 34, 115,
       34, 58, 34, 97, 92, 34, 98, 92, 92, 99, 92, 117, 48, 48, 52, 49, 92,
       110, 34, 125>>, json |-> TRUE, value |-> JObj(<<<<<<116>>, JNum(FALSE,
       <<4>>, <<>>)>>, <<<<115>>, JStr(<<97, 34, 98, 92, 99, 65, 10>>)>>>>),
       format |-> "A", sender |-> "present"],
      \* {"t":4,"s":"\xc3\xa9"}
      [kind |-> "text", bytes |-> <<123, 34, 116, 34, 58, 52, 44, 34, 115,
       34, 58, 34, 195, 169, 34, 125>>, json |-> TRUE,
       value |-> JObj(<<<<<<116>>, JNum(FALSE, <<4>>, <<>>)>>, <<<<115>>,
       JStr(<<233>>)>>>>), format |-> "A", sender |-> "present"],
      \* {"t":4,"s":"\xff"}
      [kind |-> "text", bytes |-> <<123, 34, 116, 34, 58, 52, 44, 34, 115,
       34, 58, 34, 255, 34, 125>>, json |-> TRUE, value |-> JObj(<<<<<<116>>,
       JNum(FALSE, <<4>>, <<>>)>>, <<<<115>>, JStr(<<65533>>)>>>>),
       format |-> "A", sender |-> "present"],
      \* {"t":4,"s":"a"
      [kind |-> "text", bytes |-> <<123, 34, 116, 34, 58, 52, 44, 34, 115,
       34, 58, 34, 97, 34>>, json |-> FALSE, value |-> JUndefined,
       format |-> "none", sender |-> "present"],
      \* {"type":4,"source":"node-b","payload":{"x":true},"timestamp":1700000000}
      [kind |-> "text", bytes |-> <<123, 34, 116, 121, 112, 101, 34, 58, 52,
       44, 34, 115, 111, 117, 114, 99, 101, 34, 58, 34, 110, 111, 100, 101,
       45, 98, 34, 44, 34, 112, 97, 121, 108, 111, 97, 100, 34, 58, 123, 34,
       120, 34, 58, 116, 114, 117, 101, 125, 44, 34, 116, 105, 109, 101, 115,
       116, 97, 109, 112, 34, 58, 49, 55, 48, 48, 48, 48, 48, 48, 48, 48,
       125>>, json |-> TRUE, value |-> JObj(<<<<<<116, 121, 112, 101>>,
       JNum(FALSE, <<4>>, <<>>)>>, <<<<115, 111, 117, 114, 99, 101>>,
       JStr(<<110, 111, 100, 101, 45, 98>>)>>, <<<<112, 97, 121, 108, 111, 97,
       100>>, JObj(<<<<<<120>>, JBool(TRUE)>>>>)>>, <<<<116, 105, 109, 101,
       115, 116, 97, 109, 112>>, JNum(FALSE, <<1, 7, 0, 0, 0, 0, 0, 0, 0, 0>>,
       <<>>)>>>>), format |-> "B", sender |-> "present"],
      \* {"type":"4","source":"b"}
      [kind |-> "text", bytes |-> <<123, 34, 116, 121, 112, 101, 34, 58, 34,
       52, 34, 44, 34, 115, 111, 117, 114, 99, 101, 34, 58, 34, 98, 34, 125>>,
       json |-> TRUE, value |-> JObj(<<<<<<116, 121, 112, 101>>,
       JStr(<<52>>)>>, <<<<115, 111, 117, 114, 99, 101>>, JStr(<<98>>)>>>>),
       format |-> "B", sender |-> "present"],
      \* {"type":1.5,"source":"b"}
      [kind |-> "text", bytes |-> <<123, 34, 116, 121, 112, 101, 34, 58, 49,
       46, 53, 44, 34, 115, 111, 117, 114, 99, 101, 34, 58, 34, 98, 34, 125>>,
       json |-> TRUE, value |-> JObj(<<<<<<116, 121, 112, 101>>, JNum(FALSE,
       <<1>>, <<5>>)>>, <<<<115, 111, 117, 114, 99, 101>>, JStr(<<98>>)>>>>),
       format |-> "B", sender |-> "present"],
      \* {"type":null,"source":"b"}
      [kind |-> "text", bytes |-> <<123, 34, 116, 121, 112, 101, 34, 58, 110,
       117, 108, 108, 44, 34, 115, 111, 117, 114, 99, 101, 34, 58, 34, 98, 34,
       125>>, json |-> TRUE, value |-> JObj(<<<<<<116, 121, 112, 101>>,
       JNull>>, <<<<115, 111, 117, 114, 99, 101>>, JStr(<<98>>)>>>>),
       format |-> "B", sender |-> "present"],
      \* {"type":4,"payload":{}}
      [kind |-> "text", bytes |-> <<123, 34, 116, 121, 112, 101, 34, 58, 52,
       44, 34, 112, 97, 121, 108, 111, 97, 100, 34, 58, 123, 125, 125>>,
       json |-> TRUE, value |-> JObj(<<<<<<116, 121, 112, 101>>, JNum(FALSE,
       <<4>>, <<>>)>>, <<<<112, 97, 121, 108, 111, 97, 100>>, JObj(<<>>)>>>>),
       format |-> "B", sender |-> "missing"],
      \* {"type":4,"source":""}
      [kind |-> "text", bytes |-> <<123, 34, 116, 121, 112, 101, 34, 58, 52,
       44, 34, 115, 111, 117, 114, 99, 101, 34, 58, 34, 34, 125>>,
       json |-> TRUE, value |-> JObj(<<<<<<116, 121, 112, 101>>, JNum(FALSE,
       <<4>>, <<>>)>>, <<<<115, 111, 117, 114, 99, 101>>, JStr(<<>>)>>>>),
       format |-> "B", sender |-> "empty"],
      \* {"type":-1,"source":"b"}
      [kind |-> "text", bytes |-> <<123, 34, 116, 121, 112, 101, 34, 58, 45,
       49, 44, 34, 115, 111, 117, 114, 99, 101, 34, 58, 34, 98, 34, 125>>,
       json |-> TRUE, value |-> JObj(<<<<<<116, 121, 112, 101>>, JNum(TRUE,
       <<1>>, <<>>)>>, <<<<115, 111, 117, 114, 99, 101>>, JStr(<<98>>)>>>>),
       format |-> "B", sender |-> "present"],
      \* {"type":300,"source":"b"}
      [kind |-> "text", bytes |-> <<123, 34, 116, 121, 112, 101, 34, 58, 51,
       48, 48, 44, 34, 115, 111, 117, 114, 99, 101, 34, 58, 34, 98, 34, 125>>,
       json |-> TRUE, value |-> JObj(<<<<<<116, 121, 112, 101>>, JNum(FALSE,
       <<3, 0, 0>>, <<>>)>>, <<<<115, 111, 117, 114, 99, 101>>,
       JStr(<<98>>)>>>>), format |-> "B", sender |-> "present"],
      \* {"type":4,"source":"b","t":9}
      [kind |-> "text", bytes |-> <<123, 34, 116, 121, 112, 101, 34, 58, 52,
       44, 34, 115, 111, 117, 114, 99, 101, 34, 58, 34, 98, 34, 44, 34, 116,
       34, 58, 57, 125>>, json |-> TRUE, value |-> JObj(<<<<<<116, 121, 112,
       101>>, JNum(FALSE, <<4>>, <<>>)>>, <<<<115, 111, 117, 114, 99, 101>>,
       JStr(<<98>>)>>, <<<<116>>, JNum(FALSE, <<9>>, <<>>)>>>>),
       format |-> "B", sender |-> "present"],
      \* {"t":1,"s":"a","type":2,"source":"b"}
      [kind |-> "text", bytes |-> <<123, 34, 116, 34, 58, 49, 44, 34, 115,
       34, 58, 34, 97, 34, 44, 34, 116, 121, 112, 101, 34, 58, 50, 44, 34,
       115, 111, 117, 114, 99, 101, 34, 58, 34, 98, 34, 125>>, json |-> TRUE,
       value |-> JObj(<<<<<<116>>, JNum(FALSE, <<1>>, <<>>)>>, <<<<115>>,
       JStr(<<97>>)>>, <<<<116, 121, 112, 101>>, JNum(FALSE, <<2>>, <<>>)>>,
       <<<<115, 111, 117, 114, 99, 101>>, JStr(<<98>>)>>>>), format |-> "A",
       sender |-> "present"],
      \* {"type":true,"source":7}
      [kind |-> "text", bytes |-> <<123, 34, 116, 121, 112, 101, 34, 58, 116,
       114, 117, 101, 44, 34, 115, 111, 117, 114, 99, 101, 34, 58, 55, 125>>,
       json |-> TRUE, value |-> JObj(<<<<<<116, 121, 112, 101>>,
       JBool(TRUE)>>, <<<<115, 111, 117, 114, 99, 101>>, JNum(FALSE, <<7>>,
       <<>>)>>>>), format |-> "B", sender |-> "present"],
      \* {"type":[4],"source":"b"}
      [kind |-> "text", bytes |-> <<123, 34, 116, 121, 112, 101, 34, 58, 91,
       52, 93, 44, 34, 115, 111, 117, 114, 99, 101, 34, 58, 34, 98, 34, 125>>,
       json |-> TRUE, value |-> JObj(<<<<<<116, 121, 112, 101>>,
       JArr(<<JNum(FALSE, <<4>>, <<>>)>>)>>, <<<<115, 111, 117, 114, 99,
       101>>, JStr(<<98>>)>>>>), format |-> "B", sender |-> "present"],
      \* {"type":0.0,"source":"b"}
      [kind |-> "text", bytes |-> <<123, 34, 116, 121, 112, 101, 34, 58, 48,
       46, 48, 44, 34, 115, 111, 117, 114, 99, 101, 34, 58, 34, 98, 34, 125>>,
       json |-> TRUE, value |-> JObj(<<<<<<116, 121, 112, 101>>, JNum(FALSE,
       <<0>>, <<>>)>>, <<<<115, 111, 117, 114, 99, 101>>, JStr(<<98>>)>>>>),
       format |-> "B", sender |-> "present"],
      \* {}
      [kind |-> "text", bytes |-> <<123, 125>>, json |-> TRUE,
       value |-> JObj(<<>>), format |-> "none", sender |-> "missing"],
      \* []
      [kind |-> "text", bytes |-> <<91, 93>>, json |-> TRUE,
       value |-> JArr(<<>>), format |-> "none", sender |-> "missing"],
      \* [{"t":4,"s":"a"}]
      [kind |-> "text", bytes |-> <<91, 123, 34, 116, 34, 58, 52, 44, 34,
       115, 34, 58, 34, 97, 34, 125, 93>>, json |-> TRUE,
       value |-> JArr(<<JObj(<<<<<<116>>, JNum(FALSE, <<4>>, <<>>)>>,
       <<<<115>>, JStr(<<97>>)>>>>)>>), format |-> "none",
       sender |-> "present"],
      \* null
      [kind |-> "text", bytes |-> <<110, 117, 108, 108>>, json |-> TRUE,
       value |-> JNull, format |-> "none", sender |-> "missing"],
      \* 5
      [kind |-> "text", bytes |-> <<53>>, json |-> TRUE,
       value |-> JNum(FALSE, <<5>>, <<>>), format |-> "none",
       sender |-> "missing"],
      \* "x"
      [kind |-> "text", bytes |-> <<34, 120, 34>>, json |-> TRUE,
       value |-> JStr(<<120>>), format |-> "none", sender |-> "missing"],
      \* (empty)
      [kind |-> "text", bytes |-> <<>>, json |-> FALSE, value |-> JUndefined,
       format |-> "none", sender |-> "missing"],
      \* {"t":4}
      [kind |-> "text", bytes |-> <<123, 34, 116, 34, 58, 52, 125>>,
       json |-> TRUE, value |-> JObj(<<<<<<116>>, JNum(FALSE, <<4>>,
       <<>>)>>>>), format |-> "none", sender |-> "missing"],
      \* {"s":1}
      [kind |-> "text", bytes |-> <<123, 34, 115, 34, 58, 49, 125>>,
       json |-> TRUE, value |-> JObj(<<<<<<115>>, JNum(FALSE, <<1>>,
       <<>>)>>>>), format |-> "none", sender |-> "present"],
      \* {"a":1}
      [kind |-> "text", bytes |-> <<123, 34, 97, 34, 58, 49, 125>>,
       json |-> TRUE, value |-> JObj(<<<<<<97>>, JNum(FALSE, <<1>>,
       <<>>)>>>>), format |-> "none", sender |-> "missing"],
      \* {"a":1,}
      [kind |-> "text", bytes |-> <<123, 34, 97, 34, 58, 49, 44, 125>>,
       json |-> FALSE, value |-> JUndefined, format |-> "none",
       sender |-> "missing"],
      \* {"t":4,"s"
      [kind |-> "text", bytes |-> <<123, 34, 116, 34, 58, 52, 44, 34, 115,
       34>>, json |-> FALSE, value |-> JUndefined, format |-> "none",
       sender |-> "missing"],
      \* {"t":4,"s":
      [kind |-> "text", bytes |-> <<123, 34, 116, 34, 58, 52, 44, 34, 115,
       34, 58>>, json |-> FALSE, value |-> JUndefined, format |-> "none",
       sender |-> "missing"],
      \* {
      [kind |-> "text", bytes |-> <<123>>, json |-> FALSE,
       value |-> JUndefined, format |-> "none", sender |-> "missing"],
      \* {"t"
      [kind |-> "text", bytes |-> <<123, 34, 116, 34>>, json |-> FALSE,
       value |-> JUndefined, format |-> "none", sender |-> "missing"],
      \* {"t":01}
      [kind |-> "text", bytes |-> <<123, 34, 116, 34, 58, 48, 49, 125>>,
       json |-> FALSE, value |-> JUndefined, format |-> "none",
       sender |-> "missing"],
      \* abc
      [kind |-> "text", bytes |-> <<97, 98, 99>>, json |-> FALSE,
       value |-> JUndefined, format |-> "none", sender |-> "missing"],
      \* \xff\xfe
      [kind |-> "text", bytes |-> <<255, 254>>, json |-> FALSE,
       value |-> JUndefined, format |-> "none", sender |-> "missing"],
      \* \x00\x04\x00\x00\x00
      [kind |-> "text", bytes |-> <<0, 4, 0, 0, 0>>, json |-> FALSE,
       value |-> JUndefined, format |-> "none", sender |-> "missing"],
      \* \x00\x04\x00\x00\x00\x00\x00\x02\x00\x00\x00
      [kind |-> "text", bytes |-> <<0, 4, 0, 0, 0, 0, 0, 2, 0, 0, 0>>,
       json |-> FALSE, value |-> JUndefined, format |-> "none",
       sender |-> "missing"],
      \* {"t":4,"s":"a\x01"}
      [kind |-> "text", bytes |-> <<123, 34, 116, 34, 58, 52, 44, 34, 115,
       34, 58, 34, 97, 1, 34, 125>>, json |-> FALSE, value |-> JUndefined,
       format |-> "none", sender |-> "present"] }

\* Payloads of binary frames: the bytes, whether they are a JSON text and the
\* value it denotes, and the same for the bytes without the last one (cut).
Bodies ==
    { \* {}
      [bytes |-> <<123, 125>>, json |-> TRUE, value |-> JObj(<<>>),
       cut |-> [json |-> FALSE, value |-> JUndefined]],
      \* {"sender":"a"}
      [bytes |-> <<123, 34, 115, 101, 110, 100, 101, 114, 34, 58, 34, 97, 34,
       125>>, json |-> TRUE, value |-> JObj(<<<<<<115, 101, 110, 100, 101,
       114>>, JStr(<<97>>)>>>>), cut |-> [json |-> FALSE,
       value |-> JUndefined]],
      \* {"serverId":"b"}
      [bytes |-> <<123, 34, 115, 101, 114, 118, 101, 114, 73, 100, 34, 58,
       34, 98, 34, 125>>, json |-> TRUE, value |-> JObj(<<<<<<115, 101, 114,
       118, 101, 114, 73, 100>>, JStr(<<98>>)>>>>), cut |-> [json |-> FALSE,
       value |-> JUndefined]],
      \* {"sender":"a","serverId":"b"}
      [bytes |-> <<123, 34, 115, 101, 110, 100, 101, 114, 34, 58, 34, 97, 34,
       44, 34, 115, 101, 114, 118, 101, 114, 73, 100, 34, 58, 34, 98, 34,
       125>>, json |-> TRUE, value |-> JObj(<<<<<<115, 101, 110, 100, 101,
       114>>, JStr(<<97>>)>>, <<<<115, 101, 114, 118, 101, 114, 73, 100>>,
       JStr(<<98>>)>>>>), cut |-> [json |-> FALSE, value |-> JUndefined]],
      \* {"sender":"","serverId":"b"}
      [bytes |-> <<123, 34, 115, 101, 110, 100, 101, 114, 34, 58, 34, 34, 44,
       34, 115, 101, 114, 118, 101, 114, 73, 100, 34, 58, 34, 98, 34, 125>>,
       json |-> TRUE, value |-> JObj(<<<<<<115, 101, 110, 100, 101, 114>>,
       JStr(<<>>)>>, <<<<115, 101, 114, 118, 101, 114, 73, 100>>,
       JStr(<<98>>)>>>>), cut |-> [json |-> FALSE, value |-> JUndefined]],
      \* {"sender":""}
      [bytes |-> <<123, 34, 115, 101, 110, 100, 101, 114, 34, 58, 34, 34,
       125>>, json |-> TRUE, value |-> JObj(<<<<<<115, 101, 110, 100, 101,
       114>>, JStr(<<>>)>>>>), cut |-> [json |-> FALSE, value |-> JUndefined]],
      \* {"sender":null}
      [bytes |-> <<123, 34, 115, 101, 110, 100, 101, 114, 34, 58, 110, 117,
       108, 108, 125>>, json |-> TRUE, value |-> JObj(<<<<<<115, 101, 110,
       100, 101, 114>>, JNull>>>>), cut |-> [json |-> FALSE,
       value |-> JUndefined]],
      \* {"sender":0,"serverId":0}
      [bytes |-> <<123, 34, 115, 101, 110, 100, 101, 114, 34, 58, 48, 44, 34,
       115, 101, 114, 118, 101, 114, 73, 100, 34, 58, 48, 125>>,
       json |-> TRUE, value |-> JObj(<<<<<<115, 101, 110, 100, 101, 114>>,
       JNum(FALSE, <<0>>, <<>>)>>, <<<<115, 101, 114, 118, 101, 114, 73,
       100>>, JNum(FALSE, <<0>>, <<>>)>>>>), cut |-> [json |-> FALSE,
       value |-> JUndefined]],
      \* {"sender":7}
      [bytes |-> <<123, 34, 115, 101, 110, 100, 101, 114, 34, 58, 55, 125>>,
       json |-> TRUE, value |-> JObj(<<<<<<115, 101, 110, 100, 101, 114>>,
       JNum(FALSE, <<7>>, <<>>)>>>>), cut |-> [json |-> FALSE,
       value |-> JUndefined]],
      \* {"type":9,"serverId":"b"}
      [bytes |-> <<123, 34, 116, 121, 112, 101, 34, 58, 57, 44, 34, 115, 101,
       114, 118, 101, 114, 73, 100, 34, 58, 34, 98, 34, 125>>, json |-> TRUE,
       value |-> JObj(<<<<<<116, 121, 112, 101>>, JNum(FALSE, <<9>>, <<>>)>>,
       <<<<115, 101, 114, 118, 101, 114, 73, 100>>, JStr(<<98>>)>>>>),
       cut |-> [json |-> FALSE, value |-> JUndefined]],
      \* {"t":1,"s":"x"}
      [bytes |-> <<123, 34, 116, 34, 58, 49, 44, 34, 115, 34, 58, 34, 120,
       34, 125>>, json |-> TRUE, value |-> JObj(<<<<<<116>>, JNum(FALSE,
       <<1>>, <<>>)>>, <<<<115>>, JStr(<<120>>)>>>>), cut |-> [json |-> FALSE,
       value |-> JUndefined]],
      \*  {"sender":"a"} 
      [bytes |-> <<32, 123, 34, 115, 101, 110, 100, 101, 114, 34, 58, 34, 97,
       34, 125, 32>>, json |-> TRUE, value |-> JObj(<<<<<<115, 101, 110, 100,
       101, 114>>, JStr(<<97>>)>>>>), cut |-> [json |-> TRUE,
       value |-> JObj(<<<<<<115, 101, 110, 100, 101, 114>>,
       JStr(<<97>>)>>>>)]],
      \* {"sender":{"n":1}}
      [bytes |-> <<123, 34, 115, 101, 110, 100, 101, 114, 34, 58, 123, 34,
       110, 34, 58, 49, 125, 125>>, json |-> TRUE, value |-> JObj(<<<<<<115,
       101, 110, 100, 101, 114>>, JObj(<<<<<<110>>, JNum(FALSE, <<1>>,
       <<>>)>>>>)>>>>), cut |-> [json |-> FALSE, value |-> JUndefined]],
      \* null
      [bytes |-> <<110, 117, 108, 108>>, json |-> TRUE, value |-> JNull,
       cut |-> [json |-> FALSE, value |-> JUndefined]],
      \* 5
      [bytes |-> <<53>>, json |-> TRUE, value |-> JNum(FALSE, <<5>>, <<>>),
       cut |-> [json |-> FALSE, value |-> JUndefined]],
      \* "x"
      [bytes |-> <<34, 120, 34>>, json |-> TRUE, value |-> JStr(<<120>>),
       cut |-> [json |-> FALSE, value |-> JUndefined]],
      \* []
      [bytes |-> <<91, 93>>, json |-> TRUE, value |-> JArr(<<>>),
       cut |-> [json |-> FALSE, value |-> JUndefined]],
      \* true
      [bytes |-> <<116, 114, 117, 101>>, json |-> TRUE,
       value |-> JBool(TRUE), cut |-> [json |-> FALSE, value |-> JUndefined]],
      \* [1,{"sender":"a"}]
      [bytes |-> <<91, 49, 44, 123, 34, 115, 101, 110, 100, 101, 114, 34, 58,
       34, 97, 34, 125, 93>>, json |-> TRUE, value |-> JArr(<<JNum(FALSE,
       <<1>>, <<>>), JObj(<<<<<<115, 101, 110, 100, 101, 114>>,
       JStr(<<97>>)>>>>)>>), cut |-> [json |-> FALSE, value |-> JUndefined]],
      \* (empty)
      [bytes |-> <<>>, json |-> FALSE, value |-> JUndefined,
       cut |-> [json |-> FALSE, value |-> JUndefined]],
      \* {
      [bytes |-> <<123>>, json |-> FALSE, value |-> JUndefined,
       cut |-> [json |-> FALSE, value |-> JUndefined]],
      \* {"sender":"a"}x
      [bytes |-> <<123, 34, 115, 101, 110, 100, 101, 114, 34, 58, 34, 97, 34,
       125, 120>>, json |-> FALSE, value |-> JUndefined,
       cut |-> [json |-> TRUE, value |-> JObj(<<<<<<115, 101, 110, 100, 101,
       114>>, JStr(<<97>>)>>>>)]],
      \* \xff
      [bytes |-> <<255>>, json |-> FALSE, value |-> JUndefined,
       cut |-> [json |-> FALSE, value |-> JUndefined]],
      \* {"sender":"a",}
      [bytes |-> <<123, 34, 115, 101, 110, 100, 101, 114, 34, 58, 34, 97, 34,
       44, 125>>, json |-> FALSE, value |-> JUndefined,
       cut |-> [json |-> FALSE, value |-> JUndefined]] }

\* Header timestamps: the two halves of the 32-bit seconds value and the digits
\* of the same time in milliseconds.
Seconds ==
    { \* 0
      [hi |-> 0, lo |-> 0, ms |-> <<0>>],
      \* 1
      [hi |-> 0, lo |-> 1, ms |-> <<1, 0, 0, 0>>],
      \* 1700000000
      [hi |-> 25939, lo |-> 61696, ms |-> <<1, 7, 0, 0, 0, 0, 0, 0, 0, 0, 0, 0, 0>>],
      \* 2147483648
      [hi |-> 32768, lo |-> 0, ms |-> <<2, 1, 4, 7, 4, 8, 3, 6, 4, 8, 0, 0, 0>>],
      \* 4294967295
      [hi |-> 65535, lo |-> 65535, ms |-> <<4, 2, 9, 4, 9, 6, 7, 2, 9, 5, 0, 0, 0>>] }

\* Object payloads given to encode.
ObjectPayloads ==
    { \* {}
      JObj(<<>>),
      \* {"content_hash":"ab12","decision":"auto_admit","redundancy_score":12.5}
      JObj(<<<<<<99, 111, 110, 116, 101, 110, 116, 95, 104, 97, 115, 104>>,
       JStr(<<97, 98, 49, 50>>)>>, <<<<100, 101, 99, 105, 115, 105, 111,
       110>>, JStr(<<97, 117, 116, 111, 95, 97, 100, 109, 105, 116>>)>>,
       <<<<114, 101, 100, 117, 110, 100, 97, 110, 99, 121, 95, 115, 99, 111,
       114, 101>>, JNum(FALSE, <<1, 2>>, <<5>>)>>>>),
      \* {"t":9,"s":"zz"}
      JObj(<<<<<<116>>, JNum(FALSE, <<9>>, <<>>)>>, <<<<115>>, JStr(<<122,
       122>>)>>>>),
      \* {"nested":{"list":[1,null,"x\"y"],"flag":false},"serverId":"spoof"}
      JObj(<<<<<<110, 101, 115, 116, 101, 100>>, JObj(<<<<<<108, 105, 115,
       116>>, JArr(<<JNum(FALSE, <<1>>, <<>>), JNull, JStr(<<120, 34,
       121>>)>>)>>, <<<<102, 108, 97, 103>>, JBool(FALSE)>>>>)>>, <<<<115,
       101, 114, 118, 101, 114, 73, 100>>, JStr(<<115, 112, 111, 111,
       102>>)>>>>),
      \* {"k":-3}
      JObj(<<<<<<107>>, JNum(TRUE, <<3>>, <<>>)>>>>) }

---------------------------------------------------------------------------
(* The codec applied to bounded sets of signals and buffers *)

\* Sender ids given to encode: "a", n"\ (a quote and a backslash), e-acute
\* followed by a line feed, and the empty string.
SenderIds == {JStr(<<97>>), JStr(<<110, 34, 92>>), JStr(<<233, 10>>), JStr(<<>>)}

\* Type codes given to encode: three inside 1..255 and the two next to it.
SignalTypes == {JInt(1), JInt(SIGNAL_TYPES.CONTENT_CHECKED), JInt(255),
                JInt(0), JInt(256)}

\* Date.now() at the time of encode: 0 and 1700000000123.
Clock == {JInt(0), JNum(FALSE, <<1, 7, 0, 0, 0, 0, 0, 0, 0, 0, 1, 2, 3>>, <<>>)}

SignalInputs ==
    {[kind |-> "signal", msg |-> [type |-> t, serverId |-> s, data |-> d]] :
        t \in SignalTypes, s \in SenderIds,
        d \in ObjectPayloads \cup {JUndefined, JNull, JArr(<<>>)}}

\* Header type fields: 0, three codes in 1..255 (one not in the registry), 256.
HeaderTypes == {0, 1, 153, 255, 256}

ReservedBytes == {<<0, 0>>, <<255, 255>>}

TrailingBytes == {<<>>, <<125>>}

\* How the declared payload length relates to the bytes that follow the
\* header: all bytes of the payload, one byte less, one byte more than the
\* buffer holds, 65536, or 4294967295.
LengthModes == {"exact", "short", "over", "high", "huge"}

DeclaredLength(mode, body, trailing) ==
    CASE mode = "exact" -> [hi |-> 0, lo |-> Len(body.bytes)]
      [] mode = "short" -> [hi |-> 0, lo |-> IF body.bytes = <<>> THEN 0
                                             ELSE Len(body.bytes) - 1]
      [] mode = "over" -> [hi |-> 0, lo |-> Len(body.bytes) + Len(trailing) + 1]
      [] mode = "high" -> [hi |-> 1, lo |-> 0]
      [] mode = "huge" -> [hi |-> 65535, lo |-> 65535]

BinaryInputs ==
    {[kind |-> "binary", hdrType |-> t, reserved |-> r, secs |-> s, body |-> b,
      trailing |-> tr, mode |-> m, declared |-> DeclaredLength(m, b, tr)] :
        t \in HeaderTypes, r \in ReservedBytes, s \in Seconds, b \in Bodies,
        tr \in TrailingBytes, m \in LengthModes}

U16Bytes(n) == <<n \div 256, n % 256>>

\* The frame of a binary input: type (2 bytes), reserved (2), payload length
\* (4), seconds (4), all big-endian, then the payload and the trailing bytes.
FrameBytes(in) ==
    U16Bytes(in.hdrType) \o in.reserved
      \o U16Bytes(in.declared.hi) \o U16Bytes(in.declared.lo)
      \o U16Bytes(in.secs.hi) \o U16Bytes(in.secs.lo)
      \o in.body.bytes \o in.trailing

CodecInputs == TextSamples \cup BinaryInputs \cup SignalInputs

InputBuffer(in) ==
    CASE in.kind = "text" -> in.bytes
      [] in.kind = "binary" -> FrameBytes(in)
      [] in.kind = "signal" -> <<>>

MeshUnused ==
    /\ sockets = <<>>
    /\ sharedSocket = 0
    /\ isRunning = FALSE
    /\ handlers = NoHandlers
    /\ defaultHandler = NoHandler
    /\ allowedSignals = {}
    /\ stats = ZeroStats
    /\ delivered = 0
    /\ last = NoDelivery
    /\ heartbeatTimer = "null"
    /\ db = NoDatabase
    /\ http = NoServer

CodecInit ==
    /\ input \in CodecInputs
    /\ buffer = InputBuffer(input)
    /\ result = NoResult
    /\ pc = IF input.kind = "signal" THEN "encode" ELSE "decode"
    /\ MeshUnused

\* encode(message) of a signal input, at some time of the clock
EncodeStep ==
    /\ pc = "encode"
    /\ \E now \in Clock : buffer' = Encode(input.msg, now)
    /\ pc' = "decode"
    /\ UNCHANGED <<input, result>>
    /\ UNCHANGED meshVars

\* decode(buffer)
DecodeStep ==
    /\ pc = "decode"
    /\ result' = Decode(buffer)
    /\ pc' = "done"
    /\ UNCHANGED <<input, buffer>>
    /\ UNCHANGED meshVars

CodecNext == EncodeStep \/ DecodeStep

SpecCodec == CodecInit /\ [][CodecNext]_vars

---------------------------------------------------------------------------
(* The codec: claims C4 - C10 *)

Decoded == pc = "done" /\ result.st = "returned" /\ result.val # JNull
DecodedNone == pc = "done" /\ result = Returned(JNull)

\* The slice of a binary input that its declared length selects, as judged
\* outside the model: whether it is a JSON text and the value it denotes.
Payload(in) == IF in.mode = "short" /\ in.body.bytes # <<>> THEN in.body.cut
               ELSE [json |-> in.body.json, value |-> in.body.value]

\* A binary input whose header passes the checks of the type and the length.
FramedInput ==
    /\ input.kind = "binary"
    /\ input.hdrType \in 1..255
    /\ input.mode \in {"exact", "short"}

\* A signal as C4 takes it: type in 1..255, a non-empty sender id and an
\* object payload.
C4_Signal ==
    /\ input.kind = "signal"
    /\ input.msg.type \in {JInt(n) : n \in 1..255}
    /\ input.msg.serverId # JStr(<<>>)
    /\ input.msg.data.k = "obj"

\* C4: for every signal with type in 1..255, a non-empty sender id and a
\* JSON-object payload, decode(encode(signal)) is a signal with the same type,
\* the same sender id and the same payload.
C4_RoundTrip ==
    (pc = "done" /\ C4_Signal) =>
        /\ Decoded
        /\ MsgType(result.val) = input.msg.type
        /\ MsgServerId(result.val) = input.msg.serverId
        /\ MsgData(result.val) = input.msg.data

\* A signal whose sender id holds a quote and a backslash and whose payload
\* is nested has made the round trip.
C4_Witness ==
    /\ pc = "done" /\ C4_Signal /\ Decoded
    /\ input.msg.serverId = JStr(<<110, 34, 92>>)
    /\ \E i \in 1..Len(input.msg.data.v) : input.msg.data.v[i][2].k = "obj"
    /\ MsgData(result.val) = input.msg.data

\* C5: decode never throws: for every buffer it returns a decoded signal or
\* none.
C5_DecodeNeverThrows ==
    /\ result.st # "threw"
    /\ pc = "done" => (Decoded \/ DecodedNone)

\* decode has returned none for a frame whose header is in order and whose
\* payload is not a JSON text, and for a text that breaks off after `{"t"`.
C5_Witness ==
    /\ DecodedNone
    /\ \/ FramedInput /\ input.mode = "exact" /\ ~input.body.json
             /\ input.body.bytes # <<>>
       \/ input.kind = "text" /\ ~input.json /\ Len(buffer) > 1
             /\ buffer[1] = Ch.lbrace

\* A buffer shorter than the 12-byte header that is not a JSON text.
C6_Short == input.kind = "text" /\ Len(buffer) < 12 /\ ~input.json

\* C6: decode on a buffer shorter than 12 bytes that is not valid structured
\* text returns none.
C6_ShortInvalidIsNone == (pc = "done" /\ C6_Short) => DecodedNone

\* decode has returned none for a short buffer that opens like a document but
\* is not one.
C6_Witness ==
    /\ pc = "done" /\ C6_Short /\ DecodedNone
    /\ Len(buffer) > 1 /\ buffer[1] = Ch.lbrace

\* The declared payload length of a binary input is larger than the number of
\* bytes after the header.
C7_Exceeds ==
    /\ input.kind = "binary"
    /\ \/ input.declared.hi > 0
       \/ input.declared.lo > Len(input.body.bytes) + Len(input.trailing)

\* C7: decode on a binary-framed buffer whose declared payload length exceeds
\* the number of bytes remaining after the 12-byte header returns none.
C7_LengthExceedsIsNone == (pc = "done" /\ C7_Exceeds) => DecodedNone

\* decode has returned none for a frame with a type in 1..255 and a JSON
\* payload whose declared length is 65536 (the low 16 bits of it are zero).
C7_Witness ==
    /\ pc = "done" /\ C7_Exceeds /\ DecodedNone
    /\ input.hdrType \in 1..255 /\ input.body.json
    /\ input.declared = [hi |-> 1, lo |-> 0]

\* The sender id C8 names for a payload: its sender field, else its serverId
\* field, else "unknown" (a field counts when it holds a truthy value).
C8_Sender(v) ==
    IF HasKey(v, Key.sender) /\ Truthy(Get(v, Key.sender))
    THEN Get(v, Key.sender)
    ELSE IF HasKey(v, Key.serverId) /\ Truthy(Get(v, Key.serverId))
    THEN Get(v, Key.serverId)
    ELSE Unknown

\* What C8 says decode returns for a binary input.
C8_Returns ==
    /\ Decoded
    /\ MsgType(result.val) = JInt(input.hdrType)
    /\ MsgTimestamp(result.val) = JNum(FALSE, input.secs.ms, <<>>)
    /\ MsgServerId(result.val) = C8_Sender(Payload(input).value)
    /\ MsgData(result.val) = Payload(input).value

\* C8 as stated: for a buffer of at least 12 bytes whose header type is in
\* 1..255, whose declared payload length fits in the remaining bytes and whose
\* payload slice parses as a JSON text, decode returns a signal whose type is
\* the header type, whose timestamp is the header seconds times 1000 and whose
\* sender id is the payload's sender field, else its serverId field, else
\* "unknown".
C8_Original ==
    (pc = "done" /\ FramedInput /\ Payload(input).json) => C8_Returns

\* C8, amended: the same for a payload slice that parses as a JSON text other
\* than null.
C8_BinaryFrame ==
    (pc = "done" /\ FramedInput /\ Payload(input).json
        /\ Payload(input).value # JNull) => C8_Returns

\* decode has returned a signal for a frame of type 153 sent at second
\* 1700000000 whose payload holds a type field and a serverId but no sender,
\* followed by a byte that is not part of the payload.
C8_Witness ==
    /\ pc = "done" /\ FramedInput /\ C8_Returns
    /\ input.hdrType = 153 /\ input.secs.lo = 61696 /\ input.trailing # <<>>
    /\ HasKey(Payload(input).value, Key.type)
    /\ MsgServerId(result.val) = Get(Payload(input).value, Key.serverId)

\* A frame that is well formed but for its sender: a binary frame whose
\* payload is an object with no sender field or an empty one, or a text in
\* format A or B whose sender field is empty or missing.
C9_BinaryNoSender ==
    /\ FramedInput /\ Payload(input).json /\ Payload(input).value.k = "obj"
    /\ Get(Payload(input).value, Key.sender) \in {JUndefined, JStr(<<>>)}

C9_TextEmptySender ==
    input.kind = "text" /\ input.format \in {"A", "B"} /\ input.sender = "empty"

C9_TextNoSender ==
    /\ input.kind = "text" /\ input.format \in {"A", "B"}
    /\ input.sender = "missing"

\* C9 as stated: decode does not reject a well-formed frame because its sender
\* is empty or missing: in every wire format the frame decodes to a signal,
\* with a placeholder in the place of the sender id.
C9_Original ==
    (pc = "done" /\ (C9_BinaryNoSender \/ C9_TextEmptySender \/ C9_TextNoSender))
        => /\ Decoded
           /\ MsgServerId(result.val).k = "str"
           /\ MsgServerId(result.val) # JStr(<<>>)

\* C9, amended: a binary frame whose payload has no sender, or an empty one,
\* decodes to a signal whose sender id is the payload's serverId field when
\* that holds a truthy value and "unknown" otherwise; a text in format A or B
\* with an empty sender decodes to a signal with the empty sender id; a text
\* with neither an s key nor a source key decodes to none.
C9_SenderFallback ==
    /\ (pc = "done" /\ C9_BinaryNoSender) =>
          /\ Decoded
          /\ MsgServerId(result.val) =
                IF Truthy(Get(Payload(input).value, Key.serverId))
                THEN Get(Payload(input).value, Key.serverId) ELSE Unknown
    /\ (pc = "done" /\ C9_TextEmptySender) =>
          Decoded /\ MsgServerId(result.val) = JStr(<<>>)
    /\ (pc = "done" /\ input.kind = "text" /\ input.json
          /\ ~HasKey(input.value, Key.s) /\ ~HasKey(input.value, Key.source))
          => DecodedNone

\* decode has put "unknown" in the place of the sender of a binary frame whose
\* payload is an object without sender and serverId.
C9_Witness ==
    /\ pc = "done" /\ C9_BinaryNoSender /\ Decoded
    /\ ~HasKey(Payload(input).value, Key.serverId)
    /\ MsgServerId(result.val) = Unknown

\* A number value without a fraction.
C10_IsInteger(x) == x.k = "num" /\ x.v[3] = <<>>

\* The type C10 names for a document: its type when that is a number, and 0
\* otherwise.
C10_Type(v) == IF Get(v, Key.type).k = "num" THEN Get(v, Key.type) ELSE JInt(0)

\* A text that decode reads as format B: a document written in format B that
\* has its type key and its source key.
C10_FormatB ==
    /\ input.kind = "text" /\ input.format = "B"
    /\ HasKey(input.value, Key.type) /\ HasKey(input.value, Key.source)

\* C10 as stated: when decode reads a buffer as text format B, the type of the
\* returned signal is an integer: the document's type when it is numeric, and
\* 0 otherwise.
C10_Original ==
    (pc = "done" /\ C10_FormatB) =>
        /\ Decoded
        /\ C10_IsInteger(MsgType(result.val))
        /\ MsgType(result.val) = C10_Type(input.value)

\* C10, amended: when decode reads a buffer as text format B, the type of the
\* returned signal is the document's type, unchanged, when that is a JSON
\* number (an integer or not), and 0 otherwise.
C10_TypeNumberOrZero ==
    (pc = "done" /\ C10_FormatB) =>
        /\ Decoded
        /\ MsgType(result.val) = C10_Type(input.value)

\* decode has returned type 0 for a format B document whose type is a string
\* of digits.
C10_Witness ==
    /\ pc = "done" /\ C10_FormatB /\ Decoded
    /\ Get(input.value, Key.type).k = "str"
    /\ MsgType(result.val) = JInt(0)

---------------------------------------------------------------------------
(* The dispatch registry and the codec on their own: SignalHandlers driven  *)
(* through its methods, next to one encode / decode of a signal whose code  *)
(* is or is not in the registry of signal types.                            *)

\* The handler functions registered here: one that returns, one that throws.
RegistryHandlers == {"returns", "throwsError"}

\* A frame with an empty object as payload for three codes (0x99 is in no
\* registry), and a signal for encode with the codes 0x04 and 0x99.
RegistryInputs ==
    {b \in BinaryInputs :
        /\ b.hdrType \in 1..255 /\ b.reserved = <<0, 0>> /\ b.trailing = <<>>
        /\ b.mode = "exact" /\ b.secs.ms = <<1, 0, 0, 0>>
        /\ b.body.bytes = <<Ch.lbrace, Ch.rbrace>>}
    \cup
    {[kind |-> "signal",
      msg |-> [type |-> JInt(t), serverId |-> JStr(<<97>>), data |-> JObj(<<>>)]] :
        t \in SignalCodes}

\* new SignalHandlers()
RegistryInit ==
    /\ input \in RegistryInputs
    /\ buffer = InputBuffer(input)
    /\ result = NoResult
    /\ pc = IF input.kind = "signal" THEN "encode" ELSE "decode"
    /\ MeshUnused

\* SignalHandlers.off(type)
Off(type) ==
    /\ handlers[type] # <<>>
    /\ handlers' = [handlers EXCEPT ![type] = <<>>]
    /\ UNCHANGED <<sockets, sharedSocket, isRunning, defaultHandler,
                   allowedSignals, stats, delivered, last>>
    /\ UNCHANGED <<codecVars, heartbeatTimer, db, http>>

\* SignalHandlers.clear()
Clear ==
    /\ handlers # NoHandlers \/ defaultHandler # NoHandler
    /\ handlers' = NoHandlers
    /\ defaultHandler' = NoHandler
    /\ UNCHANGED <<sockets, sharedSocket, isRunning, allowedSignals, stats,
                   delivered, last>>
    /\ UNCHANGED <<codecVars, heartbeatTimer, db, http>>

\* SignalHandlers.route(message, rinfo) for a message of the type
RouteCall(type) ==
    /\ delivered < MaxDeliveries
    /\ LET r == Route(handlers, defaultHandler, type)
       IN last' = [type |-> type, registered |-> handlers[type],
                   statsBefore |-> stats, events |-> r.events,
                   raised |-> r.raised]
    /\ delivered' = delivered + 1
    /\ UNCHANGED <<sockets, sharedSocket, isRunning, handlers, defaultHandler,
                   allowedSignals, stats>>
    /\ UNCHANGED <<codecVars, heartbeatTimer, db, http>>

RegistryNext ==
    \/ \E t \in SignalCodes, h \in RegistryHandlers : On(t, h)
    \/ \E h \in RegistryHandlers : SetDefaultHandler(h)
    \/ \E t \in SignalCodes : Off(t)
    \/ Clear
    \/ \E t \in SignalCodes : RouteCall(t)
    \/ EncodeStep
    \/ DecodeStep

SpecRegistry == RegistryInit /\ [][RegistryNext]_vars

---------------------------------------------------------------------------
(* Type codes outside the registry, the default handler: claims C11, C15 *)

\* The code a registry input carries.
C11_Code == IF input.kind = "binary" THEN JInt(input.hdrType) ELSE input.msg.type

\* The code is not one of SIGNAL_TYPES.
C11_Unregistered(code) ==
    \A name \in DOMAIN SIGNAL_TYPES : JInt(SIGNAL_TYPES[name]) # code

\* The events of a route call on a type with these handlers and this default
\* handler, when C11 holds: the handlers of the type from the first on, else
\* the default handler, else nothing.
C11_Routed(events, list, dflt) ==
    IF list # <<>>
    THEN /\ events # <<>>
         /\ Len(events) <= Len(list)
         /\ \A i \in 1..Len(events) : events[i] = HandlerEvent("handler", list[i])
    ELSE IF dflt # NoHandler THEN events = <<HandlerEvent("default", dflt)>>
    ELSE events = <<>>

\* C11 (codec): decode returns a signal with the code the frame carries, for
\* the codes of the registry and for the others.
C11_Decodes ==
    pc = "done" => (Decoded /\ MsgType(result.val) = C11_Code)

\* C11 (dispatch): a route call looks at the handlers of the type and at the
\* default handler only, for the codes of the registry and for the others.
C11_RouteStep ==
    delivered' = delivered + 1 =>
        C11_Routed(last'.events, handlers[last'.type], defaultHandler)

\* C11: neither the codec nor the dispatch registry rejects a signal because
\* of its type code: decode succeeds on a well-formed frame with any code in
\* 1..255, in the signal registry or not, and route handles an unregistered
\* code like any other (its handlers, else the default handler, else nothing).
C11_NoRejectionByType == []C11_Decodes /\ [][C11_RouteStep]_vars

\* A frame with code 0x99 was decoded and a signal with code 0x99, for which
\* no handler is registered, went to the default handler.
C11_Witness ==
    /\ pc = "done" /\ Decoded /\ input.kind = "binary"
    /\ C11_Unregistered(C11_Code) /\ MsgType(result.val) = C11_Code
    /\ delivered > 0 /\ C11_Unregistered(JInt(last.type))
    /\ last.registered = <<>>
    /\ Len(last.events) = 1 /\ last.events[1].op = "default"

---------------------------------------------------------------------------
(* Strings built by template literals: a string is the tuple of its pieces, *)
(* a piece being a literal of the source or one character.                  *)

LowerHexDigits ==
    <<"0", "1", "2", "3", "4", "5", "6", "7", "8", "9", "a", "b", "c", "d", "e", "f">>

RECURSIVE ToString16(_)
\* n.toString(16) for an integer n
ToString16(n) ==
    IF n < 0 THEN <<"-">> \o ToString16(0 - n)
    ELSE IF n < 16 THEN <<LowerHexDigits[n + 1]>>
    ELSE Append(ToString16(n \div 16), LowerHexDigits[(n % 16) + 1])

UpperCaseOf(c) ==
    CASE c = "a" -> "A" [] c = "b" -> "B" [] c = "c" -> "C"
      [] c = "d" -> "D" [] c = "e" -> "E" [] c = "f" -> "F"
      [] OTHER -> c

\* the string as toString(16) left it
ToUpperCaseNone(str) == str

\* str.toUpperCase() for a string of hexadecimal digits
ToUpperCase(str) == [i \in 1..Len(str) |-> UpperCaseOf(str[i])]

\* Tumbler.getStats(): the counters, and the per-type counts keyed by
\* `0x${type.toString(16).toUpperCase()}` (the Map holds the types counted at
\* least once).
GetStats(st) ==
    [allowed |-> st.allowed,
     blocked |-> st.blocked,
     byType |-> {<< <<"0x">> \o ToUpperCase(ToString16(t)), st.byType[t] >> :
                    t \in {u \in DOMAIN st.byType : st.byType[u] > 0}}]

\* Object.entries(SIGNAL_TYPES): the entries in the order of the literal.
SignalEntries ==
    << <<"DOCK_REQUEST", 1>>, <<"DOCK_APPROVE", 2>>, <<"DOCK_REJECT", 3>>,
       <<"HEARTBEAT", 4>>, <<"DISCONNECT", 5>>, <<"DISCOVERY", 1>>,
       <<"SHUTDOWN", 5>>, <<"HEALTH_CHECK", 6>>, <<"HEALTH_RESPONSE", 7>>,
       <<"CONTENT_CHECKED", 16>>, <<"CONTENT_ADMITTED", 32>>,
       <<"CONTENT_REJECTED", 33>>, <<"ERROR", 240>>, <<"ERROR_CRITICAL", 255>> >>

\* getSignalName(type): the name of the first entry whose value is the type,
\* else `UNKNOWN_0x${type.toString(16).toUpperCase()}`.
GetSignalName(type) ==
    LET hits == {i \in 1..Len(SignalEntries) : SignalEntries[i][2] = type}
    IN IF hits # {}
       THEN <<SignalEntries[CHOOSE i \in hits : \A j \in hits : i <= j][1]>>
       ELSE <<"UNKNOWN_0x">> \o ToUpperCase(ToString16(type))

---------------------------------------------------------------------------
(* The admission filter on its own: a Tumbler built from a list of entries  *)
(* and asked about types.                                                   *)

\* The types isAllowed is asked about.
TumblerTypes == {0, 4, 16, 153}

\* allowedSignals lists: the entries as strings of characters, whether every
\* entry is a number in decimal digits or 0x followed by hexadecimal digits,
\* and the codes such entries denote.
TumblerLists ==
    { \* []
      [kind |-> "config", list |-> <<>>, wellFormed |-> TRUE, codes |-> {}],
      \* ["0x04"]
      [kind |-> "config", list |-> << <<48, 120, 48, 52>> >>,
       wellFormed |-> TRUE, codes |-> {4}],
      \* ["4", "0x99"]
      [kind |-> "config", list |-> << <<52>>, <<48, 120, 57, 57>> >>,
       wellFormed |-> TRUE, codes |-> {4, 153}],
      \* ["16"]
      [kind |-> "config", list |-> << <<49, 54>> >>,
       wellFormed |-> TRUE, codes |-> {16}],
      \* ["0x10", "0x10"]
      [kind |-> "config", list |-> << <<48, 120, 49, 48>>, <<48, 120, 49, 48>> >>,
       wellFormed |-> TRUE, codes |-> {16}],
      \* ["0xFf", "153"]
      [kind |-> "config", list |-> << <<48, 120, 70, 102>>, <<49, 53, 51>> >>,
       wellFormed |-> TRUE, codes |-> {255, 153}],
      \* ["0"]
      [kind |-> "config", list |-> << <<48>> >>,
       wellFormed |-> TRUE, codes |-> {0}],
      \* ["0X10"]
      [kind |-> "config", list |-> << <<48, 88, 49, 48>> >>,
       wellFormed |-> FALSE, codes |-> {}],
      \* ["abc"]
      [kind |-> "config", list |-> << <<97, 98, 99>> >>,
       wellFormed |-> FALSE, codes |-> {}] }

\* new Tumbler(allowedSignals)
TumblerInit ==
    /\ input \in TumblerLists
    /\ allowedSignals = TumblerNew(input.list)
    /\ stats = [allowed |-> 0, blocked |-> 0, byType |-> [t \in TumblerTypes |-> 0]]
    /\ delivered = 0
    /\ last = NoDelivery
    /\ sockets = <<>>
    /\ sharedSocket = 0
    /\ isRunning = FALSE
    /\ handlers = NoHandlers
    /\ defaultHandler = NoHandler
    /\ buffer = <<>>
    /\ result = NoResult
    /\ pc = "tumbler"
    /\ heartbeatTimer = "null"
    /\ db = NoDatabase
    /\ http = NoServer

\* isAllowed(type)
IsAllowedCall(type) ==
    /\ delivered < MaxDeliveries
    /\ LET a == IsAllowed(allowedSignals, stats, type)
       IN /\ stats' = a.stats
          /\ last' = [type |-> type, registered |-> <<>>, statsBefore |-> stats,
                      events |-> <<HandlerEvent("isAllowed",
                                                IF a.ret THEN "true" ELSE "false")>>,
                      raised |-> FALSE]
    /\ delivered' = delivered + 1
    /\ UNCHANGED <<sockets, sharedSocket, isRunning, handlers, defaultHandler,
                   allowedSignals, input, buffer, result, pc, heartbeatTimer, db, http>>

\* getStats()
GetStatsCall ==
    /\ result # Returned(GetStats(stats))
    /\ result' = Returned(GetStats(stats))
    /\ UNCHANGED <<sockets, sharedSocket, isRunning, handlers, defaultHandler,
                   allowedSignals, stats, delivered, last, input, buffer, pc,
                   heartbeatTimer, db, http>>

TumblerNext ==
    \/ \E t \in TumblerTypes : IsAllowedCall(t)
    \/ GetStatsCall

SpecTumbler == TumblerInit /\ [][TumblerNext]_vars

---------------------------------------------------------------------------
(* The admission filter: claims C12 - C14 *)

\* The call of this step returned the value.
C12_Returned(value) ==
    last'.events = <<HandlerEvent("isAllowed", value)>>

C12_Call == delivered' = delivered + 1

\* C12 (step): a call of isAllowed on a filter built from the empty list
\* returns true, adds one to allowed and leaves blocked as it is.
C12_Step ==
    (C12_Call /\ input.list = <<>>) =>
        /\ C12_Returned("true")
        /\ stats'.allowed = stats.allowed + 1
        /\ stats'.blocked = stats.blocked

\* C12: an admission filter constructed with an empty allow-list returns true
\* from isAllowed for every type, and each such call increments the allowed
\* counter by exactly one and never the blocked counter.
C12_EmptyListAllowsAll ==
    /\ [](input.list = <<>> => (stats.allowed = delivered /\ stats.blocked = 0))
    /\ [][C12_Step]_vars

\* Two calls on a filter built from the empty list, the last one for type 0,
\* have been counted as allowed.
C12_Witness ==
    /\ input.list = <<>> /\ delivered = 2 /\ last.type = 0
    /\ last.events = <<IsAllowedTrue>>
    /\ stats.allowed = 2 /\ stats.blocked = 0

\* C13 (step): on a filter with a non-empty allow-set a call returns true iff
\* the type is in the set, and counts once: on allowed and on the count of
\* the type when it returns true, on blocked when it returns false.
C13_Step ==
    (C12_Call /\ input.wellFormed /\ input.list # <<>>) =>
        IF last'.type \in input.codes
        THEN /\ C12_Returned("true")
             /\ stats' = [stats EXCEPT !.allowed = @ + 1,
                                       !.byType[last'.type] = @ + 1]
        ELSE /\ C12_Returned("false")
             /\ stats' = [stats EXCEPT !.blocked = @ + 1]

\* C13 (totals): allowed + blocked is the number of calls, and what getStats
\* returned is what the counters were at that call.
C13_Totals ==
    /\ stats.allowed + stats.blocked = delivered
    /\ result # NoResult =>
          /\ result.val.allowed + result.val.blocked <= delivered
          /\ result.val.allowed <= stats.allowed
          /\ result.val.blocked <= stats.blocked

\* C13 (report): getStats returns the counters as they are.
C13_Report ==
    result' # result =>
        /\ result'.val.allowed = stats.allowed
        /\ result'.val.blocked = stats.blocked
        /\ \A t \in TumblerTypes :
              stats.byType[t] > 0 =>
                 \E e \in result'.val.byType : e[2] = stats.byType[t]

\* C13: for an admission filter with a non-empty allow-set, isAllowed(t)
\* returns true iff t is in the set, and each call increments exactly one
\* cumulative counter: allowed together with the per-type count of t when it
\* returns true, blocked when it returns false; so allowed + blocked equals the
\* number of calls and stats() reports these totals.
C13_CountsEveryCall ==
    /\ []C13_Totals
    /\ [][C13_Step]_vars
    /\ [][C13_Report]_vars

\* Allow-list ["0x04"]: after one call with 0x04 and one with 0x10, getStats
\* has returned allowed = 1, blocked = 1 and the count 1 under the key 0x4.
C13_Witness ==
    /\ input.list = << <<48, 120, 48, 52>> >>
    /\ delivered = 2 /\ last.type = 16 /\ last.statsBefore.byType[4] = 1
    /\ result = Returned([allowed |-> 1, blocked |-> 1,
                          byType |-> {<< <<"0x", "4">>, 1 >>}])

\* C14 (mode): isAllowed takes the branch of the permissive mode iff the
\* configured list is empty.
C14_Mode == (allowedSignals = {}) <=> (input.list = <<>>)

\* C14 (set): a filter built from a non-empty list of well-formed entries
\* admits exactly the codes the entries denote.
C14_Step ==
    (C12_Call /\ input.wellFormed /\ input.list # <<>>) =>
        (C12_Returned("true") <=> last'.type \in input.codes)

\* A filter built from a non-empty list is not permissive, whatever its
\* entries: it rejects a type.
C14_NotPermissive ==
    (C12_Call /\ input.list # <<>> /\ last'.type = 4 /\ 4 \notin input.codes)
        => C12_Returned("false")

\* C14: the admission filter is in permissive mode iff the configured list is
\* empty; for a non-empty list the allow-set is exactly the set of codes its
\* entries denote, entries prefixed with 0x read as hexadecimal and all others
\* as decimal.
C14_AllowSetFromList ==
    /\ []C14_Mode
    /\ [][C14_Step]_vars
    /\ [][C14_NotPermissive]_vars

\* A filter built from ["0xFf", "153"] has admitted 153 after rejecting 16.
C14_Witness ==
    /\ input.codes = {255, 153} /\ delivered = 2
    /\ last.type = 153 /\ last.events = <<IsAllowedTrue>>
    /\ last.statsBefore.blocked = 1

---------------------------------------------------------------------------
(* The default handler: claim C15 *)

\* The invocations of the default handler among the events of a route.
C15_Defaults(events) == {i \in 1..Len(events) : events[i].op = "default"}

\* C15 (step): what a call of route invokes, by the registry it finds.
C15_RouteStep ==
    delivered' = delivered + 1 =>
        LET ev == last'.events
            none == handlers[last'.type] = <<>>
        IN /\ (Cardinality(C15_Defaults(ev)) = 1) <=> (none /\ defaultHandler # NoHandler)
           /\ Cardinality(C15_Defaults(ev)) <= 1
           /\ ~none => C15_Defaults(ev) = {}
           /\ (none /\ defaultHandler # NoHandler) =>
                 ev = <<HandlerEvent("default", defaultHandler)>>
           /\ (none /\ defaultHandler = NoHandler) => (ev = <<>> /\ ~last'.raised)
           /\ handlers' = handlers /\ defaultHandler' = defaultHandler

\* C15 (off): after off(type) no handler is registered for the type, and the
\* default handler and the other types keep theirs.
C15_OffStep ==
    \A t \in SignalCodes :
        (handlers[t] # <<>> /\ handlers'[t] = <<>>) =>
            Route(handlers', defaultHandler', t).events =
                IF defaultHandler' = NoHandler THEN <<>>
                ELSE <<HandlerEvent("default", defaultHandler')>>

\* C15: route invokes the default handler exactly once iff no handler is
\* registered for the message's type (also after off for that type) and a
\* default handler is set; it never invokes the default handler for a type that
\* has a registered handler; with no handler and no default handler it invokes
\* nothing and changes no state.
C15_DefaultOnlyWhenUnhandled == [][C15_RouteStep]_vars /\ [][C15_OffStep]_vars

\* A message of a type without handlers went to the default handler alone
\* while the other type had a handler registered.
C15_Witness ==
    /\ delivered > 0 /\ last.registered = <<>>
    /\ last.events = <<HandlerEvent("default", "returns")>>
    /\ defaultHandler = "returns"
    /\ \E t \in SignalCodes : t # last.type /\ handlers[t] # <<>>

---------------------------------------------------------------------------
(* The names of signal codes: getSignalName called on a code, repeatedly. *)

\* The codes getSignalName is called on: the bytes, and numbers a text message
\* can carry beyond them.
NameCodes == (0 - 16)..300

NameInit ==
    /\ input \in {[kind |-> "code", code |-> c] : c \in NameCodes}
    /\ buffer = <<>>
    /\ result = NoResult
    /\ pc = "name"
    /\ MeshUnused

\* getSignalName(code); buffer keeps what the calls returned, in order.
GetSignalNameCall ==
    /\ delivered < MaxDeliveries
    /\ result' = Returned(GetSignalName(input.code))
    /\ buffer' = Append(buffer, GetSignalName(input.code))
    /\ delivered' = delivered + 1
    /\ UNCHANGED <<sockets, sharedSocket, isRunning, handlers, defaultHandler,
                   allowedSignals, stats, last, input, pc, heartbeatTimer, db, http>>

NameNext == GetSignalNameCall

SpecNames == NameInit /\ [][NameNext]_vars

---------------------------------------------------------------------------
(* claim C16 *)

C16_UpperHexDigits ==
    <<"0", "1", "2", "3", "4", "5", "6", "7", "8", "9", "A", "B", "C", "D", "E", "F">>

RECURSIVE C16_HexValue(_)
\* The number a string of uppercase hexadecimal digits denotes, -1 when a
\* character is not such a digit.
C16_HexValue(str) ==
    IF str = <<>> THEN 0
    ELSE LET d == {v \in 0..15 : C16_UpperHexDigits[v + 1] = str[Len(str)]}
             rest == C16_HexValue(SubSeq(str, 1, Len(str) - 1))
         IN IF d = {} \/ rest < 0 THEN 0 - 1
            ELSE 16 * rest + (CHOOSE v \in d : TRUE)

\* The string is the placeholder of the code.
C16_Placeholder(str, code) ==
    /\ Len(str) >= 2 /\ str[1] = "UNKNOWN_0x"
    /\ LET digits == IF code < 0 THEN SubSeq(str, 3, Len(str))
                                 ELSE SubSeq(str, 2, Len(str))
       IN /\ code < 0 => str[2] = "-"
          /\ digits # <<>>
          /\ (Len(digits) > 1 => digits[1] # "0")
          /\ C16_HexValue(digits) = (IF code < 0 THEN 0 - code ELSE code)

\* The names the registry has for the code.
C16_Names(code) == {n \in DOMAIN SIGNAL_TYPES : SIGNAL_TYPES[n] = code}

\* C16: nameOf(code) returns a name registered for that code when the code is
\* in the signal registry (the heartbeat name for 0x04, and one fixed name for
\* codes shared by aliases), and otherwise the string "UNKNOWN_0x" followed by
\* the code in uppercase hexadecimal; the result is a function of the code
\* alone: every call on the code returns the same string.
C16_NameOfCode ==
    pc = "name" =>
        \A i \in 1..Len(buffer) :
            /\ buffer[i] = buffer[1]
            /\ IF C16_Names(input.code) # {}
               THEN /\ Len(buffer[i]) = 1 /\ buffer[i][1] \in C16_Names(input.code)
                    /\ input.code = 4 => buffer[i] = <<"HEARTBEAT">>
               ELSE C16_Placeholder(buffer[i], input.code)

\* Two calls on 0xAB returned UNKNOWN_0xAB.
C16_Witness ==
    /\ pc = "name" /\ input.code = 171 /\ Len(buffer) = 2
    /\ result = Returned(<<"UNKNOWN_0x", "A", "B">>)

---------------------------------------------------------------------------
(* The lifecycle of the socket: claims C17, C18 *)

\* The last call of stop() has completed and start() has not been called
\* since: the transport this.sharedSocket refers to is closed.
C17_Stopped == sharedSocket # 0 /\ sockets[sharedSocket] = "closed"

\* C17: after stop() completes, no further heartbeat signal is emitted by this
\* node and no arriving datagram is processed: no isAllowed call, counter
\* change or handler invocation happens for a datagram that arrives after
\* stop().
C17_NothingAfterStop ==
    [][C17_Stopped => (delivered' = delivered /\ stats' = stats /\ last' = last)]_vars

\* The call of start() this.sharedSocket comes from failed to bind.
C18_BindFailed == sharedSocket # 0 /\ sockets[sharedSocket] = "failed"

\* C18 (step): after the failed start() no inbound datagram is processed.
C18_NoInbound ==
    C18_BindFailed => (delivered' = delivered /\ stats' = stats /\ last' = last)

\* C18: if binding the UDP port fails, start() surfaces the error to its
\* caller and the socket is left in the Stopped state, not Listening: it is
\* not marked running and processes no inbound datagrams.
C18_BindFailureLeavesStopped ==
    /\ [](C18_BindFailed => ~isRunning)
    /\ [][C18_NoInbound]_vars

---------------------------------------------------------------------------
(* Outbound: send on a socket that is started and stopped. *)

\* config.peers: the names of the peer table.
PeerNames == {"peer"}

\* The names send is called with: one of the table, one that is not.
SendTargets == PeerNames \cup {"stranger"}

\* The `data` argument of send: absent, a plain object, or an object whose
\* property read throws while it is spread (a getter, a Proxy).
SendData == {"undefined", "object", "getterThrowsError", "getterThrowsNullish"}

\* Evaluating `{ serverId, ...(data || {}) }`: how it ends.
SpreadOutcome(data) ==
    CASE data = "getterThrowsError" -> "throwsError"
      [] data = "getterThrowsNullish" -> "throwsNullish"
      [] OTHER -> "returns"

\* send(peerName, type, data), with the way the awaited SharedSocket.sendTo
\* ends: the calls it made on the transport, and whether its promise rejects.
SendCall(socket, peerName, data, sendTo) ==
    IF socket = 0 THEN [events |-> <<>>, raised |-> FALSE]
    ELSE IF SpreadOutcome(data) # "returns"
    THEN [events |-> <<>>, raised |-> ~CatchLogs(SpreadOutcome(data))]
    ELSE [events |-> <<HandlerEvent("sendTo", peerName)>>,
          raised |-> sendTo # "returns" /\ ~CatchLogs(sendTo)]

Send(peerName, type, data, sendTo) ==
    /\ delivered < MaxDeliveries
    /\ LET r == SendCall(sharedSocket, peerName, data, sendTo)
       IN last' = [type |-> type, registered |-> <<>>, statsBefore |-> stats,
                   events |-> r.events, raised |-> r.raised]
    /\ delivered' = delivered + 1
    /\ UNCHANGED <<sockets, sharedSocket, isRunning, handlers, defaultHandler,
                   allowedSignals, stats>>
    /\ UNCHANGED <<codecVars, heartbeatTimer, db, http>>

SendNext ==
    \/ Start
    \/ \E s \in 1..Len(sockets) : StartResolves(s)
    \/ \E s \in 1..Len(sockets) : StartRejects(s)
    \/ Stop
    \/ \E s \in 1..Len(sockets) : StopResolves(s)
    \/ \E p \in SendTargets, t \in SignalCodes, d \in SendData, o \in Outcomes :
          Send(p, t, d, o)

SpecSend == Init /\ [][SendNext]_vars

---------------------------------------------------------------------------
(* claim C20 *)

\* The datagrams the calls of one send handed to the transport for a peer of
\* the table.
C20_Datagrams(events) ==
    {i \in 1..Len(events) : events[i].op = "sendTo" /\ events[i].h \in PeerNames}

\* C20: send(peerName, type, data) never raises an error to its caller: for a
\* peer name that is not in the peer table it transmits nothing, and otherwise
\* it hands at most one datagram to the transport, with no retry after a
\* transport error.
C20_SendNeverRaises ==
    /\ ~last.raised
    /\ Cardinality(C20_Datagrams(last.events)) <= 1
    /\ Len(last.events) <= 1

---------------------------------------------------------------------------
(* The entry point: startLayers, the heartbeat timer, and stopLayers on a   *)
(* termination signal. pc is the position of main().                        *)

\* The module before main(): no socket, no timer; the socket startLayers
\* constructs takes its allow-list from the configuration.
LayersInit ==
    /\ sockets = <<>>
    /\ sharedSocket = 0
    /\ isRunning = FALSE
    /\ handlers = NoHandlers
    /\ defaultHandler = NoHandler
    /\ \E list \in AllowLists : allowedSignals = TumblerNew(list)
    /\ stats = ZeroStats
    /\ delivered = 0
    /\ last = NoDelivery
    /\ heartbeatTimer = "null"
    /\ db = NoDatabase
    /\ http = NoServer
    /\ input = [kind |-> "none"]
    /\ buffer = <<>>
    /\ result = NoResult
    /\ pc = "startLayers"

\* startLayers() up to `await interlock.start()`: the socket is constructed,
\* the heartbeat handler and the default handler are registered (both only
\* log), and start() runs up to its own await.
StartLayers ==
    /\ pc = "startLayers"
    /\ handlers' = [NoHandlers EXCEPT ![SIGNAL_TYPES.HEARTBEAT] = <<"returns">>]
    /\ defaultHandler' = "returns"
    /\ sockets' = Append(sockets, "binding")
    /\ sharedSocket' = Len(sockets) + 1
    /\ pc' = "awaitStart"
    /\ UNCHANGED <<isRunning, allowedSignals, stats, delivered, last,
                   heartbeatTimer, db, http, input, buffer, result>>

\* startLayers() after the await: setInterval, and the first sendHeartbeat().
StartLayersResumes ==
    /\ pc = "awaitStart"
    /\ sockets[sharedSocket] = "listening"
    /\ heartbeatTimer' = "interval"
    /\ UNCHANGED <<db, http>>
    /\ pc' = "running"
    /\ UNCHANGED <<sockets, sharedSocket, isRunning, handlers, defaultHandler,
                   allowedSignals, stats, delivered, last, input, buffer, result>>

\* start() rejected: startLayers rethrows, main().catch logs and exits.
StartLayersFails ==
    /\ pc = "awaitStart"
    /\ sockets[sharedSocket] = "failed"
    /\ pc' = "exited"
    /\ UNCHANGED <<sockets, sharedSocket, isRunning, handlers, defaultHandler,
                   allowedSignals, stats, delivered, last, heartbeatTimer, db, http,
                   input, buffer, result>>

\* The interval fires: interlock?.sendHeartbeat(), which does nothing. The
\* observation keeps the state of the transport at that moment.
TimerTick ==
    /\ heartbeatTimer = "interval"
    /\ pc # "exited"
    /\ delivered < MaxDeliveries
    /\ last' = [type |-> SIGNAL_TYPES.HEARTBEAT, registered |-> <<>>,
                statsBefore |-> stats,
                events |-> <<HandlerEvent("sendHeartbeat", sockets[sharedSocket])>>,
                raised |-> FALSE]
    /\ delivered' = delivered + 1
    /\ UNCHANGED <<sockets, sharedSocket, isRunning, handlers, defaultHandler,
                   allowedSignals, stats, heartbeatTimer, db, http>>
    /\ UNCHANGED codecVars

\* stopLayers without its clearInterval.
StopLayersKeepsTimer ==
    /\ pc = "running"
    /\ handlers' = NoHandlers
    /\ defaultHandler' = NoHandler
    /\ sockets' = [sockets EXCEPT ![sharedSocket] =
                      IF @ = "listening" THEN "closing" ELSE "closingDead"]
    /\ pc' = "awaitStop"
    /\ UNCHANGED <<sharedSocket, isRunning, allowedSignals, stats, delivered, last,
                   heartbeatTimer, db, http, input, buffer, result>>

\* SIGINT or SIGTERM: stopLayers() up to `await interlock.stop()`: the timer is
\* cleared, then stop() clears the registry and starts closing the transport.
\* (A second signal during the await finds the timer null and the registry
\* empty, and changes nothing.)
StopLayers ==
    /\ pc = "running"
    /\ heartbeatTimer' = "null"
    /\ UNCHANGED <<db, http>>
    /\ handlers' = NoHandlers
    /\ defaultHandler' = NoHandler
    /\ sockets' = [sockets EXCEPT ![sharedSocket] =
                      IF @ = "listening" THEN "closing" ELSE "closingDead"]
    /\ pc' = "awaitStop"
    /\ UNCHANGED <<sharedSocket, isRunning, allowedSignals, stats, delivered, last,
                   input, buffer, result>>

\* stopLayers() after the await: the other layers stop, the process exits.
StopLayersResumes ==
    /\ pc = "awaitStop"
    /\ sockets[sharedSocket] = "closed"
    /\ pc' = "exited"
    /\ UNCHANGED <<sockets, sharedSocket, isRunning, handlers, defaultHandler,
                   allowedSignals, stats, delivered, last, heartbeatTimer, db, http,
                   input, buffer, result>>

LayersNext ==
    \/ StartLayers
    \/ \E s \in 1..Len(sockets) : StartResolves(s)
    \/ \E s \in 1..Len(sockets) : StartRejects(s)
    \/ StartLayersResumes
    \/ StartLayersFails
    \/ \E s \in 1..Len(sockets), t \in SignalCodes : Deliver(s, t)
    \/ TimerTick
    \/ StopLayers
    \/ \E s \in 1..Len(sockets) : StopResolves(s)
    \/ StopLayersResumes

SpecLayers == LayersInit /\ [][LayersNext]_vars

---------------------------------------------------------------------------
(* claim C19 *)

\* stop() has been entered for the transport: it is closing or closed.
C19_Closing ==
    sharedSocket # 0 /\ sockets[sharedSocket] \in {"closing", "closingDead", "closed"}

\* C19 (order): once the transport is being closed the timer is cancelled
\* already and stop() has cleared the registry.
C19_CancelledBeforeClose ==
    C19_Closing =>
        /\ heartbeatTimer = "null"
        /\ handlers = NoHandlers /\ defaultHandler = NoHandler

\* C19 (tick): the timer fires only while the transport is bound.
C19_TickStep ==
    (delivered' = delivered + 1 /\ last'.events # <<>>
       /\ last'.events[1].op = "sendHeartbeat") =>
        (~C19_Closing /\ last'.events[1].h = "listening")

\* C19: on shutdown the heartbeat timer is cancelled before the UDP transport
\* is closed and the dispatch registry is cleared by stop(), so no heartbeat
\* send is ever attempted on a closed transport.
C19_TimerCancelledFirst == []C19_CancelledBeforeClose /\ [][C19_TickStep]_vars

\* The timer fired while the transport was bound, and the process has shut
\* down since: timer cancelled, registry cleared, transport closed.
C19_Witness ==
    /\ pc = "exited" /\ sockets[sharedSocket] = "closed"
    /\ heartbeatTimer = "null" /\ handlers = NoHandlers
    /\ last.events = <<HandlerEvent("sendHeartbeat", "listening")>>

---------------------------------------------------------------------------
(* The signal send and broadcast hand to the transport. *)

RECURSIVE SpreadMembers(_, _, _)
\* The members of `target` after the own enumerable properties of an object
\* are copied onto them in order, from position i on.
SpreadMembers(target, members, i) ==
    IF i > Len(members) THEN target
    ELSE SpreadMembers(PutMember(target, members[i][1], members[i][2]), members, i + 1)

\* The own enumerable properties `...x` copies: the members of an object, the
\* elements of an array and the characters of a string under their index (a
\* single decimal digit in the model), nothing for a number or a boolean.
OwnMembers(x) ==
    CASE x.k = "obj" -> x.v
      [] x.k = "arr" -> [i \in 1..Len(x.v) |-> << <<47 + i>>, x.v[i] >>]
      [] x.k = "str" -> [i \in 1..Len(x.v) |-> << <<47 + i>>, JStr(<<x.v[i]>>) >>]
      [] OTHER -> <<>>

\* { type, data: { serverId: this.config.serverId, ...(data || {}) } }
SignalOf(type, serverId, data) ==
    JObj(<< <<Key.type, type>>,
            <<<<100, 97, 116, 97>>,
              JObj(SpreadMembers(<< <<Key.serverId, serverId>> >>,
                                 OwnMembers(OrElse(data, JObj(<<>>))), 1))>> >>)

\* Payloads whose own serverId property is a name, null or a number.
NamedPayloads ==
    {JObj(PutMember(p.v, Key.serverId, v)) :
        p \in ObjectPayloads, v \in {JStr(<<101, 118, 105, 108>>), JNull, JInt(7)}}

\* What callers pass as `data` besides objects: nothing, falsy and primitive
\* values, an array.
OutboundPrimitives ==
    <<JUndefined, JNull, JBool(FALSE), JBool(TRUE), JInt(0), JInt(7), JStr(<<>>),
      JStr(<<97, 98>>), JArr(<<JInt(1), JNull>>)>>

OutboundInput(op, t, id, d) ==
    [kind |-> "outbound", op |-> op, type |-> JInt(t), serverId |-> id, data |-> d]

\* A call of send or broadcast with a type, on a socket with a server id, with
\* data that is a primitive, or an object without or with a serverId property.
OutboundInit ==
    /\ \E op \in {"send", "broadcast"}, t \in SignalCodes, id \in SenderIds :
          \/ \E i \in 1..Len(OutboundPrimitives) :
                input = OutboundInput(op, t, id, OutboundPrimitives[i])
          \/ \E d \in ObjectPayloads \cup NamedPayloads :
                input = OutboundInput(op, t, id, d)
    /\ buffer = <<>>
    /\ result = NoResult
    /\ pc = "call"
    /\ MeshUnused

\* send(peerName, type, data) on a started socket: the signal handed to sendTo.
SendSignal ==
    /\ pc = "call" /\ input.op = "send"
    /\ result' = Returned(SignalOf(input.type, input.serverId, input.data))
    /\ pc' = "handed"
    /\ UNCHANGED <<input, buffer>>
    /\ UNCHANGED meshVars

\* broadcast(type, data) on a started socket: the signal handed to broadcast.
BroadcastSignal ==
    /\ pc = "call" /\ input.op = "broadcast"
    /\ result' = Returned(SignalOf(input.type, input.serverId, input.data))
    /\ pc' = "handed"
    /\ UNCHANGED <<input, buffer>>
    /\ UNCHANGED meshVars

OutboundNext == SendSignal \/ BroadcastSignal

SpecOutbound == OutboundInit /\ [][OutboundNext]_vars

---------------------------------------------------------------------------
(* claim C21 *)

\* The sender id the signal carries: what the listener of the receiving side
\* reads, signal.data.serverId.
C21_SenderId(signal) == Get(Get(signal, <<100, 97, 116, 97>>), Key.serverId)

\* C21: every signal emitted by send or broadcast carries this node's
\* configured server id as its sender id, whatever the caller passes as data.
C21_SenderIsConfigured ==
    pc = "handed" => C21_SenderId(result.val) = input.serverId

---------------------------------------------------------------------------
(* Two started sockets, A and B, each the only peer of the other: a         *)
(* content-checked send on A and the listener of B. The transport between   *)
(* them hands B the signal A handed to it, with the time of sending.        *)

ContentKey ==
    [content_hash |-> <<99, 111, 110, 116, 101, 110, 116, 95, 104, 97, 115, 104>>,
     decision |-> <<100, 101, 99, 105, 115, 105, 111, 110>>,
     redundancy_score |-> <<114, 101, 100, 117, 110, 100, 97, 110, 99, 121, 95,
                            115, 99, 111, 114, 101>>,
     data |-> <<100, 97, 116, 97>>]

\* The types B keeps counters and handler lists for.
PairCodes == SignalCodes \cup {SIGNAL_TYPES.CONTENT_CHECKED}

\* The arguments of sendContentChecked: hashes "ab12" and "", the decisions
\* auto_admit, review_required and auto_reject, scores 0, 12.5 and 100.
PairArguments ==
    [hashes |-> {JStr(<<97, 98, 49, 50>>), JStr(<<>>)},
     decisions |->
        {JStr(<<97, 117, 116, 111, 95, 97, 100, 109, 105, 116>>),
         JStr(<<114, 101, 118, 105, 101, 119, 95, 114, 101, 113, 117, 105, 114, 101, 100>>),
         JStr(<<97, 117, 116, 111, 95, 114, 101, 106, 101, 99, 116>>)},
     scores |-> {JInt(0), JNum(FALSE, <<1, 2>>, <<5>>), JInt(100)}]

\* allowedSignals of B: [], ["0x10"], ["16"], ["0x04"].
PairAllowLists ==
    { <<>>, << <<48, 120, 49, 48>> >>, << <<49, 54>> >>, << <<48, 120, 48, 52>> >> }

\* A (transport 1) and B (transport 2) are listening; B has one handler
\* registered for CONTENT_CHECKED.
PairInit ==
    /\ \E hash \in PairArguments.hashes, decision \in PairArguments.decisions,
          score \in PairArguments.scores :
          input = [kind |-> "checked", hash |-> hash, decision |-> decision,
                   score |-> score, serverId |-> JStr(<<97>>)]
    /\ sockets = <<"listening", "listening">>
    /\ sharedSocket = 1
    /\ isRunning = TRUE
    /\ \E h \in RegistryHandlers :
          handlers = [t \in PairCodes |->
                         IF t = SIGNAL_TYPES.CONTENT_CHECKED THEN <<h>> ELSE <<>>]
    /\ defaultHandler = NoHandler
    /\ \E list \in PairAllowLists : allowedSignals = TumblerNew(list)
    /\ stats = [allowed |-> 0, blocked |-> 0, byType |-> [t \in PairCodes |-> 0]]
    /\ delivered = 0
    /\ last = NoDelivery
    /\ heartbeatTimer = "null"
    /\ db = NoDatabase
    /\ http = NoServer
    /\ buffer = <<>>
    /\ result = NoResult
    /\ pc = "call"

\* The payload with decision and content_hash exchanged.
ContentCheckedSwapped(contentHash, decision, redundancyScore) ==
    JObj(<< <<ContentKey.content_hash, decision>>,
            <<ContentKey.decision, contentHash>>,
            <<ContentKey.redundancy_score, redundancyScore>> >>)

\* The data sendContentChecked passes to broadcast.
ContentChecked(contentHash, decision, redundancyScore) ==
    JObj(<< <<ContentKey.content_hash, contentHash>>,
            <<ContentKey.decision, decision>>,
            <<ContentKey.redundancy_score, redundancyScore>> >>)

\* A.sendContentChecked(hash, decision, score): broadcast hands the signal to
\* the transport of A; buffer holds the signals in flight to B.
SendContentChecked ==
    /\ pc = "call"
    /\ sharedSocket # 0
    /\ buffer' = <<SignalOf(JInt(SIGNAL_TYPES.CONTENT_CHECKED), input.serverId,
                            ContentChecked(input.hash, input.decision, input.score))>>
    /\ pc' = "inFlight"
    /\ UNCHANGED <<input, result>>
    /\ UNCHANGED meshVars

\* The listener's conversion of a signal to a DecodedMessage.
DecodedOf(signal, timestamp) ==
    Message(Get(signal, Key.type),
            Get(Get(signal, ContentKey.data), Key.serverId),
            Get(signal, ContentKey.data),
            timestamp)

\* The transport of B emits 'signal' for the signal in flight and B's listener
\* runs: conversion, whitelist check, routing. result keeps the message the
\* handlers were called with.
PairDeliver ==
    /\ pc = "inFlight"
    /\ sockets[2] = "listening"
    /\ \E now \in Clock :
          LET decoded == DecodedOf(buffer[1], now)
              r == Listener(allowedSignals, stats, handlers, defaultHandler,
                            SIGNAL_TYPES.CONTENT_CHECKED)
          IN /\ stats' = r.stats
             /\ last' = [type |-> SIGNAL_TYPES.CONTENT_CHECKED,
                         registered |-> handlers[SIGNAL_TYPES.CONTENT_CHECKED],
                         statsBefore |-> stats, events |-> r.events,
                         raised |-> r.raised]
             /\ result' = IF \E i \in 1..Len(r.events) : IsInvocation(r.events[i])
                          THEN Returned(decoded) ELSE NoResult
    /\ delivered' = delivered + 1
    /\ buffer' = <<>>
    /\ pc' = "delivered"
    /\ UNCHANGED <<sockets, sharedSocket, isRunning, handlers, defaultHandler,
                   allowedSignals, heartbeatTimer, db, http, input>>

PairNext == SendContentChecked \/ PairDeliver

\* The call is made and the transport delivers.
SpecPair == PairInit /\ [][PairNext]_vars /\ WF_vars(PairNext)

---------------------------------------------------------------------------
(* claim C23 *)

\* B's handler for CONTENT_CHECKED has been invoked with a message whose
\* payload fields are the values A sent.
C23_Handled ==
    /\ pc = "delivered"
    /\ last.events = <<IsAllowedTrue,
                       HandlerEvent("handler", handlers[SIGNAL_TYPES.CONTENT_CHECKED][1])>>
    /\ result.st = "returned"
    /\ MsgType(result.val) = JInt(SIGNAL_TYPES.CONTENT_CHECKED)
    /\ Get(MsgData(result.val), ContentKey.content_hash) = input.hash
    /\ Get(MsgData(result.val), ContentKey.decision) = input.decision
    /\ Get(MsgData(result.val), ContentKey.redundancy_score) = input.score

\* B's admission filter admits the content-checked type: its list is empty or
\* has an entry for 0x10.
C23_Admits ==
    allowedSignals = {} \/ TumblerHas(allowedSignals, SIGNAL_TYPES.CONTENT_CHECKED)

\* C23 as stated: a content-checked send on A eventually causes the handler
\* registered on B to be invoked with the values A sent.
C23_Original == <>C23_Handled

\* C23, amended: ... provided B's admission filter admits the content-checked
\* type (empty allow-list, or a list with the code 0x10), the send on A
\* eventually causes B's handler to be invoked with a decoded signal whose
\* payload fields equal the values A sent; when the filter does not admit the
\* type, B counts the signal as blocked and invokes nothing.
C23_EndToEnd ==
    /\ C23_Admits => <>C23_Handled
    /\ [](pc = "delivered" /\ ~C23_Admits =>
             last.events = <<IsAllowedFalse>> /\ stats.blocked = 1 /\ result = NoResult)

\* The handler of B was invoked with hash "ab12", decision auto_reject and
\* score 12.5, B's allow-list being ["0x10"].
C23_Witness ==
    /\ C23_Handled
    /\ allowedSignals # {} /\ stats.byType[SIGNAL_TYPES.CONTENT_CHECKED] = 1
    /\ input.hash = JStr(<<97, 98, 49, 50>>)
    /\ input.score = JNum(FALSE, <<1, 2>>, <<5>>)
    /\ MsgServerId(result.val) = input.serverId

---------------------------------------------------------------------------
(* The receive path under load: signals queue up at a listening socket      *)
(* while sends are awaiting their transport. buffer is the queue of signals *)
(* the transport has received and not yet emitted, result the log of the    *)
(* calls the listener made, each with the arrival number of its signal.     *)

\* The sends that can be awaiting the transport at once in the model.
MaxInFlight == 2

\* The registrations of the socket: none, one handler, two handlers of which
\* the second throws.
InboundHandlerLists == {<<>>, <<"returns">>, <<"returns", "throwsError">>}

InboundInit ==
    /\ sockets = <<"listening">>
    /\ sharedSocket = 1
    /\ isRunning = TRUE
    /\ \E list \in InboundHandlerLists :
          handlers = [NoHandlers EXCEPT ![SIGNAL_TYPES.HEARTBEAT] = list]
    /\ defaultHandler \in {NoHandler, "returns"}
    /\ \E list \in AllowLists : allowedSignals = TumblerNew(list)
    /\ stats = ZeroStats
    /\ delivered = 0
    /\ last = NoDelivery
    /\ heartbeatTimer = "null"
    /\ db = NoDatabase
    /\ http = NoServer
    /\ input = [kind |-> "inbound", arrived |-> 0, inFlight |-> 0]
    /\ buffer = <<>>
    /\ result = <<>>
    /\ pc = "listening"

\* A datagram arrives at the transport and is queued for the event loop.
Arrive(type) ==
    /\ input.arrived < MaxDeliveries
    /\ input' = [input EXCEPT !.arrived = @ + 1]
    /\ buffer' = Append(buffer, [id |-> input.arrived + 1, type |-> type])
    /\ UNCHANGED <<result, pc>>
    /\ UNCHANGED meshVars

\* send(...) is called and awaits sharedSocket.sendTo.
SendBegins ==
    /\ input.inFlight < MaxInFlight
    /\ input' = [input EXCEPT !.inFlight = @ + 1]
    /\ UNCHANGED <<buffer, result, pc>>
    /\ UNCHANGED meshVars

\* An awaited sendTo settles and send returns.
SendSettles ==
    /\ input.inFlight > 0
    /\ input' = [input EXCEPT !.inFlight = @ - 1]
    /\ UNCHANGED <<buffer, result, pc>>
    /\ UNCHANGED meshVars

\* The newest signal of the queue.
NextSignalNewest(queue) == queue[Len(queue)]

\* The signal the transport emits next: the oldest of the queue.
NextSignal(queue) == Head(queue)

\* The calls of one run of the listener, each with the number of its signal
\* and the number of sends in flight.
Tagged(id, inFlight, events) ==
    [i \in 1..Len(events) |->
        [id |-> id, inFlight |-> inFlight, op |-> events[i].op, h |-> events[i].h]]

\* The transport emits 'signal' and the listener runs to its end: a listener
\* is a synchronous function, and so is every handler call route makes.
ListenerRuns ==
    /\ buffer # <<>>
    /\ LET signal == NextSignal(buffer)
           r == Listener(allowedSignals, stats, handlers, defaultHandler, signal.type)
       IN /\ stats' = r.stats
          /\ last' = [type |-> signal.type, registered |-> handlers[signal.type],
                      statsBefore |-> stats, events |-> r.events,
                      raised |-> r.raised]
          /\ result' = result \o Tagged(signal.id, input.inFlight, r.events)
          /\ buffer' = [i \in 1..(Len(buffer) - 1) |->
                           IF i < (CHOOSE j \in 1..Len(buffer) : buffer[j] = signal)
                           THEN buffer[i] ELSE buffer[i + 1]]
    /\ delivered' = delivered + 1
    /\ UNCHANGED <<sockets, sharedSocket, isRunning, handlers, defaultHandler,
                   allowedSignals, heartbeatTimer, db, http, input, pc>>

InboundNext ==
    \/ \E t \in SignalCodes : Arrive(t)
    \/ SendBegins
    \/ SendSettles
    \/ ListenerRuns

SpecInbound == InboundInit /\ [][InboundNext]_vars

---------------------------------------------------------------------------
(* claim C24 *)

\* C24 (log): the calls are in the order of arrival of their signals, the
\* calls for one signal are its filter check followed by handler calls only,
\* and no signal is processed before one that arrived earlier.
C24_Log ==
    pc = "listening" =>
        /\ \A i, j \in 1..Len(result) : i < j => result[i].id <= result[j].id
        /\ \A i \in 1..Len(result) :
              IF i = 1 \/ result[i - 1].id # result[i].id
              THEN result[i].op = "isAllowed"
              ELSE result[i].op \in {"handler", "default"}
        /\ \A k \in 1..delivered : \E i \in 1..Len(result) : result[i].id = k
        /\ \A i \in 1..Len(result) : result[i].id <= delivered

\* C24 (step): one run of the listener adds the whole block of one signal,
\* the oldest in the queue, whatever number of sends is in flight.
C24_Step ==
    result' # result =>
        /\ delivered' = delivered + 1
        /\ Len(result') > Len(result)
        /\ \A i \in (Len(result) + 1)..Len(result') : result'[i].id = buffer[1].id
        /\ \A i \in 1..Len(result) : result'[i] = result[i]

---------------------------------------------------------------------------
(* The decision engine. Scores and thresholds are numbers; the model counts *)
(* them in halves, so that What(30) is 30 and What(30) + 1 is 30.5.         *)

What(n) == 2 * n

Decisions == {"auto_admit", "review_recommended", "review_required", "auto_reject"}

ThresholdConfig(a, b, c) ==
    [autoAdmitMax |-> a, reviewRecommendedMax |-> b, reviewRequiredMax |-> c]

DEFAULT_THRESHOLDS == ThresholdConfig(What(30), What(70), What(85))

\* Math.max(0, Math.min(100, redundancyScore))
Clamp(redundancyScore) ==
    LET least == IF redundancyScore < What(100) THEN redundancyScore ELSE What(100)
    IN IF least > What(0) THEN least ELSE What(0)

\* makeDecision(redundancyScore, config), without the text of the reason.
MakeDecision(redundancyScore, config) ==
    LET score == Clamp(redundancyScore)
    IN IF score <= config.autoAdmitMax
       THEN [decision |-> "auto_admit", can_override |-> FALSE]
       ELSE IF score <= config.reviewRecommendedMax
       THEN [decision |-> "review_recommended", can_override |-> TRUE]
       ELSE IF score <= config.reviewRequiredMax
       THEN [decision |-> "review_required", can_override |-> TRUE]
       ELSE [decision |-> "auto_reject", can_override |-> TRUE]

\* getThresholdRanges(config)
GetThresholdRanges(config) ==
    [auto_admit |-> [min |-> What(0), max |-> config.autoAdmitMax],
     review_recommended |-> [min |-> config.autoAdmitMax + What(1),
                             max |-> config.reviewRecommendedMax],
     review_required |-> [min |-> config.reviewRecommendedMax + What(1),
                          max |-> config.reviewRequiredMax],
     auto_reject |-> [min |-> config.reviewRequiredMax + What(1), max |-> What(100)]]

\* validateThresholds with > in place of >= between the first two thresholds.
ValidateThresholdsLoose(config) ==
    /\ ~(config.autoAdmitMax < What(0) \/ config.autoAdmitMax > What(100))
    /\ ~(config.reviewRecommendedMax < What(0) \/ config.reviewRecommendedMax > What(100))
    /\ ~(config.reviewRequiredMax < What(0) \/ config.reviewRequiredMax > What(100))
    /\ ~(config.autoAdmitMax > config.reviewRecommendedMax)
    /\ ~(config.reviewRecommendedMax >= config.reviewRequiredMax)

\* validateThresholds(config).valid for a configuration with all three
\* thresholds given.
ValidateThresholds(config) ==
    /\ ~(config.autoAdmitMax < What(0) \/ config.autoAdmitMax > What(100))
    /\ ~(config.reviewRecommendedMax < What(0) \/ config.reviewRecommendedMax > What(100))
    /\ ~(config.reviewRequiredMax < What(0) \/ config.reviewRequiredMax > What(100))
    /\ ~(config.autoAdmitMax >= config.reviewRecommendedMax)
    /\ ~(config.reviewRecommendedMax >= config.reviewRequiredMax)

\* Thresholds offered to validateThresholds: whole numbers inside and outside
\* 0..100, and 30.5 and 84.5.
ThresholdValues ==
    {What(0) - 2, What(0), What(30), What(30) + 1, What(50), What(70), What(85) - 1,
     What(85), What(99), What(100), What(101)}

DecisionInit ==
    /\ \E a \in ThresholdValues, b \in ThresholdValues, c \in ThresholdValues,
          score \in {What(0) - 4, What(0), What(30), What(31), What(50), What(70),
                     What(71), What(85), What(86), What(100), What(102)} :
          input = [kind |-> "decide", config |-> ThresholdConfig(a, b, c),
                   score |-> score]
    /\ buffer = <<>>
    /\ result = NoResult
    /\ pc = "validate"
    /\ MeshUnused

\* validateThresholds(config) finds errors.
ValidateFails ==
    /\ pc = "validate"
    /\ ~ValidateThresholds(input.config)
    /\ pc' = "invalid"
    /\ UNCHANGED <<input, buffer, result>>
    /\ UNCHANGED meshVars

\* validateThresholds(config) finds none.
ValidatePasses ==
    /\ pc = "validate"
    /\ ValidateThresholds(input.config)
    /\ pc' = "decide"
    /\ UNCHANGED <<input, buffer, result>>
    /\ UNCHANGED meshVars

\* makeDecision(score, config) and getThresholdRanges(config)
Decide ==
    /\ pc = "decide"
    /\ result' = Returned([made |-> MakeDecision(input.score, input.config),
                           ranges |-> GetThresholdRanges(input.config)])
    /\ pc' = "decided"
    /\ UNCHANGED <<input, buffer>>
    /\ UNCHANGED meshVars

DecisionNext == ValidateFails \/ ValidatePasses \/ Decide

SpecDecision == DecisionInit /\ [][DecisionNext]_vars

---------------------------------------------------------------------------
(* claim C30 *)

\* The score the decision is made for: the given one brought into 0..100.
C30_Score ==
    IF input.score < 0 THEN 0 ELSE IF input.score > 200 THEN 200 ELSE input.score

\* The decision the thresholds give the score.
C30_Expected ==
    CASE C30_Score <= input.config.autoAdmitMax -> "auto_admit"
      [] C30_Score > input.config.autoAdmitMax
           /\ C30_Score <= input.config.reviewRecommendedMax -> "review_recommended"
      [] C30_Score > input.config.reviewRecommendedMax
           /\ C30_Score <= input.config.reviewRequiredMax -> "review_required"
      [] OTHER -> "auto_reject"

\* The decisions whose reported range contains the score.
C30_InRange ==
    {d \in Decisions :
        /\ result.val.ranges[d].min <= C30_Score
        /\ C30_Score <= result.val.ranges[d].max}

\* C30: for every configuration validateThresholds accepts and every integer
\* score, the decision made is the one the thresholds give the score clamped
\* into 0..100, and it is the one decision whose range reported by
\* getThresholdRanges contains that score.
C30_DecisionInItsRange ==
    pc = "decided" =>
        /\ result.val.made.decision = C30_Expected
        /\ C30_InRange = {result.val.made.decision}

---------------------------------------------------------------------------
(* File paths: node:path resolve and normalize on POSIX, and the file      *)
(* system checkFile reads. Paths are sequences of character codes.         *)

Slash == <<47>>

\* str.includes(sub)
Includes(str, sub) ==
    \E i \in 0..(Len(str) - Len(sub)) : SubSeq(str, i + 1, i + Len(sub)) = sub

\* str.startsWith(prefix)
StartsWith(str, prefix) ==
    Len(str) >= Len(prefix) /\ SubSeq(str, 1, Len(prefix)) = prefix

\* The pieces of a path between its slashes, empty ones included.
RECURSIVE SplitPath(_, _, _, _)
SplitPath(path, i, piece, pieces) ==
    IF i > Len(path) THEN Append(pieces, piece)
    ELSE IF path[i] = Slash[1] THEN SplitPath(path, i + 1, <<>>, Append(pieces, piece))
    ELSE SplitPath(path, i + 1, Append(piece, path[i]), pieces)

\* normalizeString of an absolute path: "" and "." are dropped, ".." removes
\* the piece before it and is dropped at the root.
RECURSIVE NormalizeString(_, _, _)
NormalizeString(pieces, i, kept) ==
    IF i > Len(pieces) THEN kept
    ELSE IF pieces[i] = <<>> \/ pieces[i] = <<Ch.dot>>
    THEN NormalizeString(pieces, i + 1, kept)
    ELSE IF pieces[i] = <<Ch.dot, Ch.dot>>
    THEN NormalizeString(pieces, i + 1,
                         IF kept = <<>> THEN kept ELSE SubSeq(kept, 1, Len(kept) - 1))
    ELSE NormalizeString(pieces, i + 1, Append(kept, pieces[i]))

RECURSIVE JoinPath(_, _)
JoinPath(pieces, i) ==
    IF i > Len(pieces) THEN <<>>
    ELSE (IF i = 1 THEN <<>> ELSE Slash) \o pieces[i] \o JoinPath(pieces, i + 1)

\* path.resolve(filePath) in the working directory cwd.
Resolve(filePath, cwd) ==
    LET absolute == IF StartsWith(filePath, Slash) THEN filePath
                    ELSE cwd \o Slash \o filePath
    IN Slash \o JoinPath(NormalizeString(SplitPath(absolute, 1, <<>>, <<>>), 1, <<>>), 1)

\* path.normalize(path) of an absolute path: a trailing slash is kept.
Normalize(path) ==
    LET kept == NormalizeString(SplitPath(path, 1, <<>>, <<>>), 1, <<>>)
    IN Slash \o JoinPath(kept, 1)
         \o (IF kept # <<>> /\ path[Len(path)] = Slash[1] THEN Slash ELSE <<>>)

\* const ALLOWED_BASE_PATHS
ALLOWED_BASE_PATHS ==
    <<\* /Users/macbook/Documents/claude_home
      <<47, 85, 115, 101, 114, 115, 47, 109, 97, 99, 98, 111, 111, 107, 47,
      68, 111, 99, 117, 109, 101, 110, 116, 115, 47, 99, 108, 97, 117, 100,
      101, 95, 104, 111, 109, 101>>,
      \* /tmp/intake-guardian
      <<47, 116, 109, 112, 47, 105, 110, 116, 97, 107, 101, 45, 103, 117, 97,
      114, 100, 105, 97, 110>>>>

\* process.cwd(), the directory resolve() starts from.
WorkingDirectories ==
    {\* /srv/app
     <<47, 115, 114, 118, 47, 97, 112, 112>>,
     \* /tmp/intake-guardian
     <<47, 116, 109, 112, 47, 105, 110, 116, 97, 107, 101, 45, 103, 117, 97, 114, 100, 105, 97, 110>>}

\* The file_path arguments offered to checkFile.
FilePaths ==
    <<\* "/tmp/intake-guardian/a.txt"
      <<47, 116, 109, 112, 47, 105, 110, 116, 97, 107, 101, 45, 103, 117, 97,
      114, 100, 105, 97, 110, 47, 97, 46, 116, 120, 116>>,
      \* "/tmp/intake-guardian"
      <<47, 116, 109, 112, 47, 105, 110, 116, 97, 107, 101, 45, 103, 117, 97,
      114, 100, 105, 97, 110>>,
      \* "/tmp/intake-guardian/"
      <<47, 116, 109, 112, 47, 105, 110, 116, 97, 107, 101, 45, 103, 117, 97,
      114, 100, 105, 97, 110, 47>>,
      \* "/tmp/intake-guardianX/a.txt"
      <<47, 116, 109, 112, 47, 105, 110, 116, 97, 107, 101, 45, 103, 117, 97,
      114, 100, 105, 97, 110, 88, 47, 97, 46, 116, 120, 116>>,
      \* "/tmp/intake-guardian/../../etc/passwd"
      <<47, 116, 109, 112, 47, 105, 110, 116, 97, 107, 101, 45, 103, 117, 97,
      114, 100, 105, 97, 110, 47, 46, 46, 47, 46, 46, 47, 101, 116, 99, 47,
      112, 97, 115, 115, 119, 100>>,
      \* "/etc/passwd"
      <<47, 101, 116, 99, 47, 112, 97, 115, 115, 119, 100>>,
      \* "a.txt"
      <<97, 46, 116, 120, 116>>,
      \* "./a.txt"
      <<46, 47, 97, 46, 116, 120, 116>>,
      \* "/tmp/intake-guardian/a..b"
      <<47, 116, 109, 112, 47, 105, 110, 116, 97, 107, 101, 45, 103, 117, 97,
      114, 100, 105, 97, 110, 47, 97, 46, 46, 98>>,
      \* "/tmp/intake-guardian/a\x00.txt"
      <<47, 116, 109, 112, 47, 105, 110, 116, 97, 107, 101, 45, 103, 117, 97,
      114, 100, 105, 97, 110, 47, 97, 0, 46, 116, 120, 116>>,
      \* "/tmp//intake-guardian/./a.txt"
      <<47, 116, 109, 112, 47, 47, 105, 110, 116, 97, 107, 101, 45, 103, 117,
      97, 114, 100, 105, 97, 110, 47, 46, 47, 97, 46, 116, 120, 116>>,
      \* ""
      <<>>,
      \* "/Users/macbook/Documents/claude_home/n.md"
      <<47, 85, 115, 101, 114, 115, 47, 109, 97, 99, 98, 111, 111, 107, 47,
      68, 111, 99, 117, 109, 101, 110, 116, 115, 47, 99, 108, 97, 117, 100,
      101, 95, 104, 111, 109, 101, 47, 110, 46, 109, 100>>,
      \* "../intake-guardian/a.txt"
      <<46, 46, 47, 105, 110, 116, 97, 107, 101, 45, 103, 117, 97, 114, 100,
      105, 97, 110, 47, 97, 46, 116, 120, 116>>,
      \* "/tmp/intake-guardian/sub/../a.txt"
      <<47, 116, 109, 112, 47, 105, 110, 116, 97, 107, 101, 45, 103, 117, 97,
      114, 100, 105, 97, 110, 47, 115, 117, 98, 47, 46, 46, 47, 97, 46, 116,
      120, 116>>,
      \* "/etc/passwd\x00"
      <<47, 101, 116, 99, 47, 112, 97, 115, 115, 119, 100, 0>>,
      \* "/tmp/intake-guardian/missing.txt"
      <<47, 116, 109, 112, 47, 105, 110, 116, 97, 107, 101, 45, 103, 117, 97,
      114, 100, 105, 97, 110, 47, 109, 105, 115, 115, 105, 110, 103, 46, 116,
      120, 116>>,
      \* "/Users/macbook/Documents/claude_home"
      <<47, 85, 115, 101, 114, 115, 47, 109, 97, 99, 98, 111, 111, 107, 47,
      68, 111, 99, 117, 109, 101, 110, 116, 115, 47, 99, 108, 97, 117, 100,
      101, 95, 104, 111, 109, 101>>,
      \* "/Users/macbook/Documents/claude_homework/n.md"
      <<47, 85, 115, 101, 114, 115, 47, 109, 97, 99, 98, 111, 111, 107, 47,
      68, 111, 99, 117, 109, 101, 110, 116, 115, 47, 99, 108, 97, 117, 100,
      101, 95, 104, 111, 109, 101, 119, 111, 114, 107, 47, 110, 46, 109, 100>>,
      \* "/"
      <<47>>,
      \* "sub/b.txt"
      <<115, 117, 98, 47, 98, 46, 116, 120, 116>>>>

\* The regular files of the file system, with the content of each.
Files ==
    {\* /tmp/intake-guardian/a.txt
     [path |-> <<47, 116, 109, 112, 47, 105, 110, 116, 97, 107, 101, 45, 103,
               117, 97, 114, 100, 105, 97, 110, 47, 97, 46, 116, 120, 116>>,
      content |-> "a"],
     \* /tmp/intake-guardianX/a.txt
     [path |-> <<47, 116, 109, 112, 47, 105, 110, 116, 97, 107, 101, 45, 103,
               117, 97, 114, 100, 105, 97, 110, 88, 47, 97, 46, 116, 120,
               116>>,
      content |-> "a"],
     \* /etc/passwd
     [path |-> <<47, 101, 116, 99, 47, 112, 97, 115, 115, 119, 100>>,
      content |-> "p"],
     \* /Users/macbook/Documents/claude_home/n.md
     [path |-> <<47, 85, 115, 101, 114, 115, 47, 109, 97, 99, 98, 111, 111,
               107, 47, 68, 111, 99, 117, 109, 101, 110, 116, 115, 47, 99,
               108, 97, 117, 100, 101, 95, 104, 111, 109, 101, 47, 110, 46,
               109, 100>>,
      content |-> "n"],
     \* /tmp/intake-guardian/sub/b.txt
     [path |-> <<47, 116, 109, 112, 47, 105, 110, 116, 97, 107, 101, 45, 103,
               117, 97, 114, 100, 105, 97, 110, 47, 115, 117, 98, 47, 98, 46,
               116, 120, 116>>,
      content |-> "b"],
     \* /srv/app/a.txt
     [path |-> <<47, 115, 114, 118, 47, 97, 112, 112, 47, 97, 46, 116, 120,
               116>>,
      content |-> "p"],
     \* /Users/macbook/Documents/claude_homework/n.md
     [path |-> <<47, 85, 115, 101, 114, 115, 47, 109, 97, 99, 98, 111, 111,
               107, 47, 68, 111, 99, 117, 109, 101, 110, 116, 115, 47, 99,
               108, 97, 117, 100, 101, 95, 104, 111, 109, 101, 119, 111, 114,
               107, 47, 110, 46, 109, 100>>,
      content |-> "n"]}

\* Its directories.
Directories ==
    {\* /
     <<47>>,
     \* /tmp/intake-guardian
     <<47, 116, 109, 112, 47, 105, 110, 116, 97, 107, 101, 45, 103, 117, 97,
     114, 100, 105, 97, 110>>,
     \* /Users/macbook/Documents/claude_home
     <<47, 85, 115, 101, 114, 115, 47, 109, 97, 99, 98, 111, 111, 107, 47, 68,
     111, 99, 117, 109, 101, 110, 116, 115, 47, 99, 108, 97, 117, 100, 101,
     95, 104, 111, 109, 101>>,
     \* /tmp/intake-guardian/sub
     <<47, 116, 109, 112, 47, 105, 110, 116, 97, 107, 101, 45, 103, 117, 97,
     114, 100, 105, 97, 110, 47, 115, 117, 98>>,
     \* /srv/app
     <<47, 115, 114, 118, 47, 97, 112, 112>>,
     \* /etc
     <<47, 101, 116, 99>>}

\* The test of validateFilePath on the normalized path, with
\* startsWith(basePath) in place of startsWith(basePath + '/').
IsAllowedPathByPrefix(normalizedPath) ==
    \E b \in 1..Len(ALLOWED_BASE_PATHS) :
        StartsWith(normalizedPath, ALLOWED_BASE_PATHS[b])

\* ALLOWED_BASE_PATHS.some(basePath =>
\*     normalizedPath.startsWith(basePath + '/') || normalizedPath === basePath)
IsAllowedPath(normalizedPath) ==
    \E b \in 1..Len(ALLOWED_BASE_PATHS) :
        \/ StartsWith(normalizedPath, ALLOWED_BASE_PATHS[b] \o Slash)
        \/ normalizedPath = ALLOWED_BASE_PATHS[b]

\* validateFilePath(filePath): the normalized path, or the error thrown.
ValidateFilePath(filePath, cwd) ==
    LET normalizedPath == Normalize(Resolve(filePath, cwd))
    IN IF Includes(filePath, <<Ch.dot, Ch.dot>>) \/ Includes(filePath, <<Ch.nul>>)
       THEN [ok |-> FALSE, error |-> "Invalid file path: path traversal detected"]
       ELSE IF ~IsAllowedPath(normalizedPath)
       THEN [ok |-> FALSE,
             error |-> "Access denied: file path outside allowed directories"]
       ELSE [ok |-> TRUE, path |-> normalizedPath]

\* existsSync(path)
ExistsSync(path) == path \in Directories \/ \E f \in Files : f.path = path

\* readFileSync(path): the content, or EISDIR for a directory.
ReadFileSync(path) ==
    IF path \in Directories THEN [ok |-> FALSE, error |-> "EISDIR"]
    ELSE [ok |-> TRUE, content |-> (CHOOSE f \in Files : f.path = path).content]

---------------------------------------------------------------------------
(* IntakeService (services/intake-service.ts), the BBB client               *)
(* (services/bbb-client.ts) and the tables of database/schema.ts            *)

\* The analyses that can be awaiting the BBB service at once in the model.
MaxPending == 1

\* The analyses awaited at once where concurrent checks are the subject.
MaxChecks == 2

\* new DatabaseManager(): empty tables, and no thresholds row (<<>>).
NewDatabase ==
    [open |-> TRUE, decisions |-> <<>>, admitted |-> <<>>, thresholds |-> <<>>]

\* createHash('sha256').update(content).digest('hex').substring(0, 32)
Hash(content) == <<"sha256", content>>

\* uuidv4() for a new row of a table: an id no row of the table has yet.
Uuidv4(rows) == Len(rows) + 1

RECURSIVE LatestWithHash(_, _, _)
LatestWithHash(rows, i, contentHash) ==
    IF i = 0 THEN 0
    ELSE IF rows[i].content_hash = contentHash THEN i
    ELSE LatestWithHash(rows, i - 1, contentHash)

\* getDecisionByHash without its WHERE clause: the newest decision of any hash.
GetNewestDecision(database, contentHash) == Len(database.decisions)

\* getDecisionByHash(contentHash): the index of the newest decision of the
\* hash, 0 for undefined.
GetDecisionByHash(database, contentHash) ==
    LatestWithHash(database.decisions, Len(database.decisions), contentHash)

\* isAdmitted answering false whatever the table holds.
IsAdmittedNever(database, contentHash) == FALSE

\* isAdmitted(contentHash)
IsAdmitted(database, contentHash) ==
    \E i \in 1..Len(database.admitted) : database.admitted[i].content_hash = contentHash

\* getAdmittedByHash(contentHash), for a hash that is admitted.
GetAdmittedByHash(database, contentHash) ==
    database.admitted[CHOOSE i \in 1..Len(database.admitted) :
        /\ database.admitted[i].content_hash = contentHash
        /\ \A j \in 1..(i - 1) : database.admitted[j].content_hash # contentHash]

\* getThresholds(): the stored configuration, DEFAULT_THRESHOLDS without one.
GetThresholds(database) ==
    IF database.thresholds = <<>> THEN DEFAULT_THRESHOLDS ELSE database.thresholds[1]

\* getDefaultResponse()
GetDefaultResponse == [score |-> What(50), similar_items |-> <<"BBB_UNAVAILABLE">>]

\* What the fetch of analyzeContent / analyzeFile can come to: a rejected
\* fetch, a response that is not ok, and ok responses with their JSON body.
BBBOutcomes ==
    {[kind |-> "unreachable"],
     [kind |-> "status"],
     [kind |-> "ok", redundancy_score |-> What(10), similar_items |-> <<>>],
     [kind |-> "ok", redundancy_score |-> What(90), similar_items |-> <<"doc-1">>]}

\* analyzeContent(options) / analyzeFile(filePath) for an outcome of the fetch.
Analyze(outcome) ==
    IF outcome.kind = "ok"
    THEN [score |-> outcome.redundancy_score, similar_items |-> outcome.similar_items]
    ELSE GetDefaultResponse

\* The contents offered to checkContent.
Contents == {"x"}

\* The file_path arguments offered to checkFile beside the other operations:
\* entries of FilePaths.
IntakePaths == {1, 6}

\* The content_hash arguments offered to admitContent.
AdmitHashes == {Hash("a"), Hash("x"), Hash("none")}

\* The override, override_reason and destination arguments offered to
\* admitContent.
AdmitOptions ==
    [override |-> <<JBool(FALSE), JBool(TRUE)>>,
     override_reason |-> <<JUndefined, JStr(<<>>), JStr(<<111, 107>>)>>,
     destination |-> <<JUndefined>>]

\* The thresholds offered to configureThresholds; <<>> for one left out.
ConfigureInputs ==
    [auto_admit_max |-> {<<>>, <<What(60)>>},
     review_recommended_max |-> {<<>>, <<What(40)>>},
     review_required_max |-> {<<>>, <<What(85)>>}]

\* a ?? b
Coalesce(a, b) == IF a = <<>> THEN b ELSE a[1]

Failed(message) == [st |-> "threw", val |-> message]

IntakeInit ==
    /\ db = NewDatabase
    /\ input = [kind |-> "intake", op |-> "none"]
    /\ buffer = <<>>
    /\ result = NoResult
    /\ pc = "intake"
    /\ sockets = <<>>
    /\ sharedSocket = 0
    /\ isRunning = FALSE
    /\ handlers = NoHandlers
    /\ defaultHandler = NoHandler
    /\ allowedSignals = {}
    /\ stats = ZeroStats
    /\ delivered = 0
    /\ last = NoDelivery
    /\ heartbeatTimer = "null"
    /\ http = NoServer

\* The service answers calls. In the position "checks" up to MaxChecks
\* analyses are awaited at once, elsewhere up to MaxPending.
InService == pc \in {"intake", "checks"}

PendingBound == IF pc = "checks" THEN MaxChecks ELSE MaxPending

intakeUnchanged ==
    UNCHANGED <<sockets, sharedSocket, isRunning, handlers, defaultHandler,
                allowedSignals, stats, delivered, last, heartbeatTimer, pc>>

\* The answer of checkContent / checkFile for a decision already recorded.
PreviouslyChecked(existing, accessed) ==
    Returned([decision |-> existing.decision,
              redundancy_score |-> existing.redundancy_score,
              similar_items |-> existing.similar_items,
              reason |-> "previously checked",
              can_override |-> existing.decision # "auto_admit",
              content_hash |-> existing.content_hash,
              analysis |-> "none",
              accessed |-> accessed])

\* checkContent(input) up to its await of analyzeContent, or to its return of
\* the decision recorded before.
CheckContent(content) ==
    LET contentHash == Hash(content)
        existing == GetDecisionByHash(db, contentHash)
    IN /\ InService
       /\ input' = [kind |-> "intake", op |-> "checkContent", content |-> content]
       /\ IF existing # 0
          THEN /\ result' = PreviouslyChecked(db.decisions[existing], {})
               /\ UNCHANGED buffer
          ELSE /\ Len(buffer) < PendingBound
               /\ buffer' = Append(buffer, [content_hash |-> contentHash,
                                            file_path |-> "null", accessed |-> {}])
               /\ result' = [st |-> "awaiting", val |-> [accessed |-> {}]]
       /\ UNCHANGED db
       /\ intakeUnchanged

\* checkFile(input) up to its await of analyzeFile, to its return of the
\* decision recorded before, or to the error it throws.
CheckFile(filePath, cwd) ==
    \E safePath \in {ValidateFilePath(filePath, cwd)} :
    LET content == ReadFileSync(safePath.path)
        contentHash == Hash(content.content)
        existing == GetDecisionByHash(db, contentHash)
    IN /\ pc = "intake"
       /\ input' = [kind |-> "intake", op |-> "checkFile", file_path |-> filePath,
                    cwd |-> cwd]
       /\ IF ~safePath.ok
          THEN /\ result' = [st |-> "threw", val |-> [message |-> safePath.error,
                                                      accessed |-> {}]]
               /\ UNCHANGED buffer
          ELSE IF ~ExistsSync(safePath.path)
          THEN /\ result' = [st |-> "threw", val |-> [message |-> "File not found",
                                                      accessed |-> {safePath.path}]]
               /\ UNCHANGED buffer
          ELSE IF ~content.ok
          THEN /\ result' = [st |-> "threw", val |-> [message |-> content.error,
                                                      accessed |-> {safePath.path}]]
               /\ UNCHANGED buffer
          ELSE IF existing # 0
          THEN /\ result' = PreviouslyChecked(db.decisions[existing], {safePath.path})
               /\ UNCHANGED buffer
          ELSE /\ Len(buffer) < MaxPending
               /\ buffer' = Append(buffer, [content_hash |-> contentHash,
                                            file_path |-> safePath.path,
                                            accessed |-> {safePath.path}])
               /\ result' = [st |-> "awaiting", val |-> [accessed |-> {safePath.path}]]
       /\ UNCHANGED db
       /\ intakeUnchanged

\* The rest of checkContent / checkFile once the fetch of the BBB client has
\* settled: analysis, makeDecision under the thresholds of that moment,
\* insertDecision, return.
AnalysisSettles(i, outcome) ==
    LET check == buffer[i]
        analysis == Analyze(outcome)
        made == MakeDecision(analysis.score, GetThresholds(db))
        decision == [id |-> Uuidv4(db.decisions),
                     content_hash |-> check.content_hash,
                     file_path |-> check.file_path,
                     redundancy_score |-> analysis.score,
                     decision |-> made.decision,
                     similar_items |-> analysis.similar_items,
                     override |-> 0]
    IN /\ InService
       /\ i \in 1..Len(buffer)
       /\ buffer' = SubSeq(buffer, 1, i - 1) \o SubSeq(buffer, i + 1, Len(buffer))
       /\ db' = [db EXCEPT !.decisions = Append(@, decision)]
       /\ input' = [kind |-> "intake", op |-> "settle", outcome |-> outcome.kind]
       /\ result' = Returned([decision |-> made.decision,
                              redundancy_score |-> analysis.score,
                              similar_items |-> analysis.similar_items,
                              reason |-> "made",
                              can_override |-> made.can_override,
                              content_hash |-> check.content_hash,
                              analysis |-> outcome.kind,
                              accessed |-> {}])
       /\ intakeUnchanged

\* admitContent without its test of override_reason.
AdmitContentWithoutReason(contentHash, override, overrideReason, destination) ==
    LET found == GetDecisionByHash(db, contentHash)
        decision == db.decisions[found]
        admissionId == Uuidv4(db.admitted)
        admittedContent == [id |-> admissionId, decision_id |-> decision.id,
                            content_hash |-> contentHash,
                            destination |->
                                OrElse(destination,
                                       JStr(<<100, 101, 102, 97, 117, 108, 116>>)).v]
    IN /\ InService
       /\ input' = [kind |-> "intake", op |-> "admitContent",
                    content_hash |-> contentHash,
                    override |-> override, override_reason |-> overrideReason]
       /\ IF found = 0
          THEN /\ result' = Failed("No decision found for content hash")
               /\ UNCHANGED db
          ELSE IF IsAdmitted(db, contentHash)
          THEN /\ result' = Returned([admitted |-> TRUE,
                                      admission_id |->
                                          GetAdmittedByHash(db, contentHash).id])
               /\ UNCHANGED db
          ELSE IF decision.decision \in {"auto_reject", "review_required"}
                  /\ ~Truthy(override)
          THEN /\ result' = Failed("Content requires override")
               /\ UNCHANGED db
          ELSE /\ db' = [db EXCEPT !.admitted = Append(@, admittedContent)]
               /\ result' = Returned([admitted |-> TRUE, admission_id |-> admissionId])
       /\ UNCHANGED buffer
       /\ intakeUnchanged

\* admitContent(input)
AdmitContent(contentHash, override, overrideReason, destination) ==
    LET found == GetDecisionByHash(db, contentHash)
        decision == db.decisions[found]
        admissionId == Uuidv4(db.admitted)
        admittedContent == [id |-> admissionId, decision_id |-> decision.id,
                            content_hash |-> contentHash,
                            destination |->
                                OrElse(destination,
                                       JStr(<<100, 101, 102, 97, 117, 108, 116>>)).v]
    IN /\ InService
       /\ input' = [kind |-> "intake", op |-> "admitContent",
                    content_hash |-> contentHash,
                    override |-> override, override_reason |-> overrideReason]
       /\ IF found = 0
          THEN /\ result' = Failed("No decision found for content hash")
               /\ UNCHANGED db
          ELSE IF IsAdmitted(db, contentHash)
          THEN /\ result' = Returned([admitted |-> TRUE,
                                      admission_id |->
                                          GetAdmittedByHash(db, contentHash).id])
               /\ UNCHANGED db
          ELSE IF decision.decision \in {"auto_reject", "review_required"}
                  /\ ~Truthy(override)
          THEN /\ result' = Failed("Content requires override")
               /\ UNCHANGED db
          ELSE IF decision.decision \in {"auto_reject", "review_required"}
                  /\ ~Truthy(overrideReason)
          THEN /\ result' = Failed("Override reason is required")
               /\ UNCHANGED db
          ELSE /\ db' = [db EXCEPT !.admitted = Append(@, admittedContent)]
               /\ result' = Returned([admitted |-> TRUE, admission_id |-> admissionId])
       /\ UNCHANGED buffer
       /\ intakeUnchanged

\* configureThresholds(input) on a database: what it returns or throws, and
\* the database after it.
Configure(database, autoAdmitMax, reviewRecommendedMax, reviewRequiredMax) ==
    LET currentThresholds == GetThresholds(database)
        newThresholds ==
            ThresholdConfig(Coalesce(autoAdmitMax, currentThresholds.autoAdmitMax),
                            Coalesce(reviewRecommendedMax,
                                     currentThresholds.reviewRecommendedMax),
                            Coalesce(reviewRequiredMax,
                                     currentThresholds.reviewRequiredMax))
    IN IF ~ValidateThresholds(newThresholds)
       THEN [result |-> Failed("Invalid thresholds"), db |-> database]
       ELSE [result |-> Returned([thresholds |-> GetThresholdRanges(newThresholds),
                                  updated |-> newThresholds # currentThresholds]),
             db |-> IF newThresholds # currentThresholds
                    THEN [database EXCEPT !.thresholds = <<newThresholds>>]
                    ELSE database]

\* configureThresholds(input)
ConfigureThresholds(autoAdmitMax, reviewRecommendedMax, reviewRequiredMax) ==
    \E done \in {Configure(db, autoAdmitMax, reviewRecommendedMax, reviewRequiredMax)} :
       /\ pc = "intake"
       /\ input' = [kind |-> "intake", op |-> "configureThresholds",
                    args |-> <<autoAdmitMax, reviewRecommendedMax, reviewRequiredMax>>]
       /\ result' = done.result
       /\ db' = done.db
       /\ UNCHANGED buffer
       /\ intakeUnchanged

\* The operations of the service called directly, as the MCP tools call them.
IntakeNext ==
    /\ \/ \E content \in Contents : CheckContent(content)
       \/ \E p \in IntakePaths, cwd \in WorkingDirectories :
              CheckFile(FilePaths[p], cwd)
       \/ \E i \in 1..MaxPending, outcome \in BBBOutcomes : AnalysisSettles(i, outcome)
       \/ \E contentHash \in AdmitHashes,
             o \in 1..Len(AdmitOptions.override),
             r \in 1..Len(AdmitOptions.override_reason),
             d \in 1..Len(AdmitOptions.destination) :
             AdmitContent(contentHash, AdmitOptions.override[o],
                          AdmitOptions.override_reason[r],
                          AdmitOptions.destination[d])
       \/ \E a \in ConfigureInputs.auto_admit_max,
             b \in ConfigureInputs.review_recommended_max,
             c \in ConfigureInputs.review_required_max : ConfigureThresholds(a, b, c)
    /\ UNCHANGED http

SpecIntake == IntakeInit /\ [][IntakeNext]_vars

---------------------------------------------------------------------------
(* claim C25 *)

\* The last step completed a checkContent or checkFile whose request to the
\* scoring service was rejected or answered with an error status.
C25_Unavailable ==
    /\ pc = "intake" /\ input.op = "settle"
    /\ input.outcome \in {"unreachable", "status"}

\* C25: when the scoring service is unreachable or answers with an error
\* status, the decision of checkContent / checkFile is never auto_admit,
\* whatever thresholds are configured: it is one of the review decisions, and
\* the similar items carry BBB_UNAVAILABLE.
C25_FailClosed ==
    C25_Unavailable =>
        /\ result.val.decision # "auto_admit"
        /\ result.val.decision \in {"review_recommended", "review_required"}
        /\ \E i \in 1..Len(result.val.similar_items) :
               result.val.similar_items[i] = "BBB_UNAVAILABLE"

---------------------------------------------------------------------------
(* claim C27 *)

\* The step is an admitContent call for content whose recorded decision is
\* auto_reject or review_required.
C27_Call ==
    /\ pc = "intake" /\ input'.op = "admitContent"
    /\ GetDecisionByHash(db, input'.content_hash) # 0
    /\ db.decisions[GetDecisionByHash(db, input'.content_hash)].decision
           \in {"auto_reject", "review_required"}

\* The call carries override = true and a non-empty override_reason.
C27_Authorised ==
    /\ input'.override = JBool(TRUE)
    /\ input'.override_reason.k = "str" /\ input'.override_reason.v # <<>>

C27_OriginalStep ==
    C27_Call =>
        /\ db'.admitted # db.admitted => C27_Authorised
        /\ ~C27_Authorised => result'.st = "threw" /\ db'.admitted = db.admitted

\* C27 as stated: for content whose recorded decision is auto_reject or
\* review_required, admitContent creates an admission record only when the call
\* carries override = true and a non-empty override_reason, and otherwise
\* fails with an error and creates no record.
C27_Original == [][C27_OriginalStep]_vars

C27_Step ==
    C27_Call =>
        /\ db'.admitted # db.admitted => C27_Authorised
        /\ ~C27_Authorised =>
               /\ db'.admitted = db.admitted
               /\ IF IsAdmitted(db, input'.content_hash)
                  THEN /\ result'.st = "returned"
                       /\ result'.val.admission_id =
                              GetAdmittedByHash(db, input'.content_hash).id
                  ELSE result'.st = "threw"

\* C27, amended: for content whose recorded decision is auto_reject or
\* review_required, admitContent creates an admission record only when the call
\* carries override = true and a non-empty override_reason; otherwise it
\* creates no admission record, and it fails with an error unless the content
\* is already admitted, in which case it returns the existing admission.
C27_OverrideNeeded == [][C27_Step]_vars

\* Content with the decision auto_reject or review_required has just been
\* admitted by a call with override and a reason.
C27_Witness ==
    /\ pc = "intake" /\ input.op = "admitContent"
    /\ result.st = "returned" /\ result.val.admission_id = Len(db.admitted)
    /\ input.override = JBool(TRUE) /\ Truthy(input.override_reason)
    /\ db.decisions[GetDecisionByHash(db, input.content_hash)].decision
           \in {"auto_reject", "review_required"}
    /\ db.admitted[Len(db.admitted)].content_hash = input.content_hash

---------------------------------------------------------------------------
(* claim C28 *)

\* Every admitted_content row references a row of intake_decisions with the
\* same content hash.
C28_Referenced ==
    pc = "intake" =>
        \A i \in 1..Len(db.admitted) :
            \E j \in 1..Len(db.decisions) :
                /\ db.decisions[j].id = db.admitted[i].decision_id
                /\ db.decisions[j].content_hash = db.admitted[i].content_hash

\* admitContent for a hash without a decision throws and adds no row.
C28_Step ==
    (/\ pc = "intake" /\ input'.op = "admitContent"
     /\ \A j \in 1..Len(db.decisions) :
            db.decisions[j].content_hash # input'.content_hash)
        => result'.st = "threw" /\ db'.admitted = db.admitted

\* C28: admitContent for a content hash that has no recorded decision fails
\* with an error and creates no admission record; in every reachable state each
\* admitted_content record references an existing decision record with the
\* same content hash.
C28_AdmissionsReferenceDecisions == []C28_Referenced /\ [][C28_Step]_vars

\* With an admission recorded, admitContent has just failed for a hash that
\* has no decision.
C28_Witness ==
    /\ pc = "intake" /\ input.op = "admitContent"
    /\ result.st = "threw"
    /\ \A j \in 1..Len(db.decisions) : db.decisions[j].content_hash # input.content_hash
    /\ Len(db.admitted) >= 1 /\ Len(db.decisions) >= 2

---------------------------------------------------------------------------
(* checkFile over every sampled path *)

FilesNext ==
    /\ \/ \E p \in 1..Len(FilePaths), cwd \in WorkingDirectories :
              CheckFile(FilePaths[p], cwd)
       \/ \E outcome \in BBBOutcomes : AnalysisSettles(1, outcome)
    /\ UNCHANGED http

SpecFiles == IntakeInit /\ [][FilesNext]_vars

---------------------------------------------------------------------------
(* claim C26 *)

\* The path equals the base directory or names something below it: the
\* pieces of the base are the first pieces of the path.
C26_Under(path, base) ==
    LET pieces == SplitPath(path, 1, <<>>, <<>>)
        basePieces == SplitPath(base, 1, <<>>, <<>>)
    IN /\ Len(pieces) >= Len(basePieces)
       /\ SubSeq(pieces, 1, Len(basePieces)) = basePieces

\* The path is absolute and normalized: no empty piece, "." or ".." in it.
C26_Normalized(path) ==
    LET pieces == SplitPath(path, 1, <<>>, <<>>)
    IN /\ Len(pieces) >= 2 /\ pieces[1] = <<>>
       /\ \A i \in 2..Len(pieces) :
              pieces[i] \notin {<<>>, <<46>>, <<46, 46>>} \/ path = <<47>>

C26_Step ==
    (pc = "intake" /\ input'.op = "checkFile") =>
        /\ \A path \in result'.val.accessed :
               /\ path = Resolve(input'.file_path, input'.cwd)
               /\ C26_Normalized(path)
               /\ \E b \in 1..Len(ALLOWED_BASE_PATHS) :
                      C26_Under(path, ALLOWED_BASE_PATHS[b])
        /\ (\E i \in 1..Len(input'.file_path) :
               \/ input'.file_path[i] = 0
               \/ i < Len(input'.file_path)
                    /\ input'.file_path[i] = 46 /\ input'.file_path[i + 1] = 46)
             => /\ result'.st = "threw"
                /\ result'.val.accessed = {}
                /\ db' = db /\ buffer' = buffer

\* C26: checkFile accesses a file only if its normalized absolute path equals
\* or lies under one of the allowed base directories, and every path that
\* contains ".." or a NUL byte is rejected with an error before any file is
\* accessed and before any decision is recorded.
C26_OnlyAllowedFiles == [][C26_Step]_vars

\* checkFile("a.txt") in the working directory /tmp/intake-guardian has read
\* /tmp/intake-guardian/a.txt, and its analysis is awaited.
C26_Witness ==
    /\ pc = "intake" /\ input.op = "checkFile"
    /\ input.file_path = FilePaths[7] /\ input.cwd = ALLOWED_BASE_PATHS[2]
    /\ result.st = "awaiting"
    /\ result.val.accessed = {FilePaths[1]}

---------------------------------------------------------------------------
(* HttpServer (http/server.ts): the middleware chain and the routes         *)

RATE_LIMIT_MAX == 100

\* const RATE_LIMIT_WINDOW = 60000, in milliseconds.
RATE_LIMIT_WINDOW == 60000

\* The requests explored.
MaxRequests == 4

\* rateLimitMap when the model starts: without an entry for the client, or with
\* the entry that RATE_LIMIT_MAX - 1 or RATE_LIMIT_MAX requests for GET /health
\* have left in the current window.
RateLimitMaps ==
    {<<>>,
     <<[count |-> RATE_LIMIT_MAX - 1, resetTime |-> RATE_LIMIT_WINDOW]>>,
     <<[count |-> RATE_LIMIT_MAX, resetTime |-> RATE_LIMIT_WINDOW]>>}

\* Date.now() of a request, in milliseconds since the first request of the
\* client: 0 for the first, and for a client with an entry the last instant of
\* its window or the one after it.
Instants(rateLimitMap) ==
    IF rateLimitMap = <<>> THEN {0}
    ELSE {rateLimitMap[1].resetTime, rateLimitMap[1].resetTime + 1}

\* The values of process.env.INTAKE_API_KEY the model starts with.
ApiKeys == <<JUndefined, JStr(<<115, 51>>)>>

\* The X-API-Key headers of the requests: none, empty, another key, the key.
ProvidedKeys == <<JUndefined, JStr(<<>>), JStr(<<119>>), JStr(<<115, 51>>)>>

\* The requests of the one client the model has. path holds the pieces of the
\* URL path; body is what express.json() finds: "none", "json" or "malformed".
Requests ==
    {[method |-> "OPTIONS", path |-> <<"api", "check">>, body |-> "none"],
     [method |-> "POST", path |-> <<"api", "check">>, body |-> "json"],
     [method |-> "POST", path |-> <<"api", "admit">>, body |-> "json"],
     [method |-> "POST", path |-> <<"api", "admit">>, body |-> "malformed"],
     [method |-> "PUT", path |-> <<"api", "config">>, body |-> "json"],
     [method |-> "GET", path |-> <<"api", "config">>, body |-> "none"],
     [method |-> "GET", path |-> <<"api", "tools">>, body |-> "none"],
     [method |-> "POST", path |-> <<"api", "tools", "admit_content">>, body |-> "json"],
     [method |-> "POST", path |-> <<"api", "tools", "nope">>, body |-> "json"],
     [method |-> "GET", path |-> <<"health">>, body |-> "none"]}

\* app.use('/api', ...): the path is /api or below it.
UnderApi(path) == Len(path) >= 1 /\ path[1] = "api"

\* !providedKey || providedKey !== API_KEY is false for any key that is sent.
AuthorizedByAnyKey(providedKey, apiKey) == Truthy(providedKey)

\* The test of the authentication middleware passes:
\* !(!providedKey || providedKey !== API_KEY)
Authorized(providedKey, apiKey) == ~(~Truthy(providedKey) \/ providedKey # apiKey)

\* The test with >= in place of >.
FreshAtReset(rateLimitMap, now) ==
    rateLimitMap = <<>> \/ now >= rateLimitMap[1].resetTime

\* !entry || now > entry.resetTime
Fresh(rateLimitMap, now) ==
    rateLimitMap = <<>> \/ now > rateLimitMap[1].resetTime

\* The middleware chain of setupMiddleware for one request: the status it
\* answers with, 0 when next() reaches the routes, and rateLimitMap after it.
\* now is Date.now() in the rate limiter.
Middleware(req, providedKey, now, apiKey, rateLimitMap) ==
    IF req.body = "malformed"
    THEN [status |-> 400, rateLimitMap |-> rateLimitMap]
    ELSE IF req.method = "OPTIONS"
    THEN [status |-> 200, rateLimitMap |-> rateLimitMap]
    ELSE IF ~Fresh(rateLimitMap, now) /\ rateLimitMap[1].count >= RATE_LIMIT_MAX
    THEN [status |-> 429, rateLimitMap |-> rateLimitMap]
    ELSE LET counted == IF Fresh(rateLimitMap, now)
                        THEN <<[count |-> 1, resetTime |-> now + RATE_LIMIT_WINDOW]>>
                        ELSE <<[rateLimitMap[1] EXCEPT !.count = @ + 1]>>
         IN IF UnderApi(req.path) /\ Truthy(apiKey) /\ ~Authorized(providedKey, apiKey)
            THEN [status |-> 401, rateLimitMap |-> counted]
            ELSE [status |-> 0, rateLimitMap |-> counted]

\* The route of setupRoutes that matches the request, "none" without one.
RouteOf(req) ==
    CASE req.method = "POST" /\ req.path = <<"api", "check">> -> "POST /api/check"
      [] req.method = "POST" /\ req.path = <<"api", "admit">> -> "POST /api/admit"
      [] req.method = "PUT" /\ req.path = <<"api", "config">> -> "PUT /api/config"
      [] req.method = "GET" /\ req.path = <<"api", "config">> -> "GET /api/config"
      [] req.method = "GET" /\ req.path = <<"api", "tools">> -> "GET /api/tools"
      [] req.method = "POST" /\ Len(req.path) = 3
           /\ SubSeq(req.path, 1, 2) = <<"api", "tools">> -> "POST /api/tools/:toolName"
      [] req.method = "GET" /\ req.path = <<"health">> -> "GET /health"
      [] OTHER -> "none"

\* new HttpServer(port) and start(), with the database open.
HttpInit ==
    /\ \E k \in 1..Len(ApiKeys), rateLimitMap \in RateLimitMaps :
           http = [listening |-> TRUE, API_KEY |-> ApiKeys[k],
                   rateLimitMap |-> rateLimitMap, served |-> 0,
                   req |-> [method |-> "none", path |-> <<>>, body |-> "none",
                            key |-> JUndefined, now |-> 0],
                   res |-> [status |-> 0, route |-> "none"]]
    /\ db = NewDatabase
    /\ input = [kind |-> "intake", op |-> "none"]
    /\ buffer = <<>>
    /\ result = NoResult
    /\ pc = "intake"
    /\ sockets = <<>>
    /\ sharedSocket = 0
    /\ isRunning = FALSE
    /\ handlers = NoHandlers
    /\ defaultHandler = NoHandler
    /\ allowedSignals = {}
    /\ stats = ZeroStats
    /\ delivered = 0
    /\ last = NoDelivery
    /\ heartbeatTimer = "null"

\* A route that reads: GET /api/config, GET /api/tools, GET /health.
ReadOnly(route) ==
    /\ pc = "intake"
    /\ input' = [kind |-> "intake", op |-> "read"]
    /\ result' = Returned([route |-> route])
    /\ UNCHANGED <<db, buffer>>
    /\ intakeUnchanged

\* The request ends without a route handler having run: a middleware answered
\* it, or no route matches and express answers 404.
Answered ==
    /\ pc = "intake"
    /\ input' = [kind |-> "intake", op |-> "http"]
    /\ UNCHANGED <<db, buffer, result>>
    /\ intakeUnchanged

\* The handler of the route, with the body the model sends to it.
RouteHandler(route, req) ==
    CASE route = "POST /api/check" -> CheckContent("x")
      [] route = "POST /api/admit" ->
             AdmitContent(Hash("x"), JBool(TRUE), JStr(<<111, 107>>), JUndefined)
      [] route = "PUT /api/config" -> ConfigureThresholds(<<What(60)>>, <<>>, <<>>)
      [] route = "POST /api/tools/:toolName" ->
             IF req.path[3] = "admit_content"
             THEN AdmitContent(Hash("x"), JBool(FALSE), JUndefined, JUndefined)
             ELSE Answered
      [] route = "none" -> Answered
      [] OTHER -> ReadOnly(route)

\* One request of the client, through the middleware chain and, when the chain
\* calls next() to the end, through the route that matches.
HttpRequest(req, providedKey, now) ==
    \E chain \in {Middleware(req, providedKey, now, http.API_KEY,
                             http.rateLimitMap)} :
    LET route == IF chain.status = 0 THEN RouteOf(req) ELSE "none"
    IN /\ http.listening
       /\ http.served < MaxRequests
       /\ http' = [http EXCEPT
               !.rateLimitMap = chain.rateLimitMap,
               !.served = @ + 1,
               !.req = [method |-> req.method, path |-> req.path,
                        body |-> req.body, key |-> providedKey, now |-> now],
               !.res = [status |-> IF chain.status = 0 /\ route = "none" THEN 404
                                   ELSE chain.status,
                        route |-> route]]
       /\ IF chain.status = 0 THEN RouteHandler(route, req) ELSE Answered

\* The await in POST /api/check ends.
HttpAnalysisSettles(outcome) ==
    /\ http.listening
    /\ AnalysisSettles(1, outcome)
    /\ UNCHANGED http

HttpNext ==
    \/ \E req \in Requests, k \in 1..Len(ProvidedKeys),
          now \in Instants(http.rateLimitMap) :
           HttpRequest(req, ProvidedKeys[k], now)
    \/ \E outcome \in {o \in BBBOutcomes : o.kind # "status"} : HttpAnalysisSettles(outcome)

SpecHttp == HttpInit /\ [][HttpNext]_vars

---------------------------------------------------------------------------
(* claim C29 *)

\* The step is a request to a path under /api, with an API key configured, and
\* without an X-API-Key header equal to it.
C29_Unauthenticated ==
    /\ http.listening /\ input'.op # "settle"
    /\ Truthy(http'.API_KEY)
    /\ Len(http'.req.path) >= 1 /\ http'.req.path[1] = "api"
    /\ http'.req.key # http'.API_KEY

\* No route or tool handler ran and the service state is as before.
C29_Untouched ==
    /\ http'.res.route = "none"
    /\ input'.op = "http"
    /\ db' = db /\ buffer' = buffer /\ result' = result

C29_OriginalStep ==
    C29_Unauthenticated => http'.res.status = 401 /\ C29_Untouched

C29_Step ==
    C29_Unauthenticated =>
        /\ C29_Untouched
        /\ http'.res.status \in {400, 200, 429, 401}
        /\ http'.res.status = 400 <=> http'.req.body = "malformed"
        /\ http'.res.status = 200 =>  http'.req.method = "OPTIONS"
        /\ http'.res.status = 429 =>
               /\ http.rateLimitMap # <<>>
               /\ http.rateLimitMap[1].count >= RATE_LIMIT_MAX
               /\ http'.rateLimitMap = http.rateLimitMap
        /\ http'.res.status = 401 =>
               http'.rateLimitMap # <<>> /\ http'.rateLimitMap[1].count >= 1

---------------------------------------------------------------------------
(* The three ways to the thresholds: the service, PUT /api/config and the   *)
(* configure_thresholds tool (tools/configure.ts)                           *)

\* The thresholds offered: <<>> for one left out, else <<n>>.
ConfigureArguments ==
    [auto_admit_max |-> {<<>>, <<What(0)>>, <<What(30)>>, <<What(60)>>, <<What(0) - 2>>},
     review_recommended_max |->
         {<<>>, <<What(0)>>, <<What(40)>>, <<What(70)>>, <<What(101)>>},
     review_required_max |-> {<<>>, <<What(0)>>, <<What(85)>>, <<What(100)>>}]

\* z.number().min(0).max(100).optional() accepts the value.
SchemaAccepts(x) == x = <<>> \/ (x[1] >= What(0) /\ x[1] <= What(100))

\* !x for an optional number: undefined and 0 are falsy.
Falsy(x) == x = <<>> \/ x[1] = 0

\* handleConfigureThresholds(args) on a database.
Handle(database, a, b, c) ==
    IF ~(SchemaAccepts(a) /\ SchemaAccepts(b) /\ SchemaAccepts(c))
    THEN [result |-> Failed("ZodError"), db |-> database]
    ELSE IF Falsy(a) /\ Falsy(b) /\ Falsy(c)
    THEN [result |-> Returned([thresholds |->
                                   GetThresholdRanges(GetThresholds(database)),
                               updated |-> FALSE]),
          db |-> database]
    ELSE Configure(database, a, b, c)

\* The handler of PUT /api/config on a database.
PutConfig(database, a, b, c) ==
    IF ~(SchemaAccepts(a) /\ SchemaAccepts(b) /\ SchemaAccepts(c))
    THEN [result |-> Failed("ZodError"), db |-> database]
    ELSE Configure(database, a, b, c)

\* A configure_thresholds tool call.
HandleConfigureThresholds(a, b, c) ==
    \E done \in {Handle(db, a, b, c)} :
       /\ pc = "intake"
       /\ input' = [kind |-> "intake", op |-> "configure_thresholds",
                    args |-> <<a, b, c>>]
       /\ result' = done.result
       /\ db' = done.db
       /\ UNCHANGED buffer
       /\ intakeUnchanged

\* A PUT /api/config request that the middleware chain lets through.
PutApiConfig(a, b, c) ==
    \E done \in {PutConfig(db, a, b, c)} :
       /\ pc = "intake"
       /\ input' = [kind |-> "intake", op |-> "PUT /api/config", args |-> <<a, b, c>>]
       /\ result' = done.result
       /\ db' = done.db
       /\ UNCHANGED buffer
       /\ intakeUnchanged

ConfigureNext ==
    /\ \E a \in ConfigureArguments.auto_admit_max,
          b \in ConfigureArguments.review_recommended_max,
          c \in ConfigureArguments.review_required_max :
          \/ ConfigureThresholds(a, b, c)
          \/ HandleConfigureThresholds(a, b, c)
          \/ PutApiConfig(a, b, c)
    /\ UNCHANGED http

SpecConfigure == IntakeInit /\ [][ConfigureNext]_vars

---------------------------------------------------------------------------
(* claim C31 *)

\* 0 <= autoAdmitMax < reviewRecommendedMax < reviewRequiredMax <= 100
C31_Ordered(config) ==
    /\ 0 <= config.autoAdmitMax
    /\ config.autoAdmitMax < config.reviewRecommendedMax
    /\ config.reviewRecommendedMax < config.reviewRequiredMax
    /\ config.reviewRequiredMax <= 200

\* The thresholds the call asks for: the argument where one is given, the
\* stored threshold where it is left out.
C31_Merged ==
    LET stored == GetThresholds(db)
        given(x, y) == IF Len(x) = 0 THEN y ELSE x[1]
    IN [autoAdmitMax |-> given(input'.args[1], stored.autoAdmitMax),
        reviewRecommendedMax |-> given(input'.args[2], stored.reviewRecommendedMax),
        reviewRequiredMax |-> given(input'.args[3], stored.reviewRequiredMax)]

C31_Step ==
    (pc = "intake" /\ input'.op = "configureThresholds") =>
        IF C31_Ordered(C31_Merged)
        THEN /\ result'.st = "returned"
             /\ GetThresholds(db') = C31_Merged
             /\ result'.val.updated <=> GetThresholds(db') # GetThresholds(db)
        ELSE /\ result'.st = "threw"
             /\ db' = db

\* C31: after any sequence of configureThresholds calls the stored thresholds
\* satisfy 0 <= autoAdmitMax < reviewRecommendedMax < reviewRequiredMax <= 100;
\* a call whose merged thresholds violate this throws and leaves the stored
\* thresholds as they were, and a call reports updated = true exactly when the
\* stored thresholds changed.
C31_StoredThresholdsOrdered ==
    /\ [](pc = "intake" => C31_Ordered(GetThresholds(db)))
    /\ [][C31_Step]_vars

\* configureThresholds({auto_admit_max: 0, review_required_max: 100}) has just
\* changed the stored thresholds to 0 / 40 / 100.
C31_Witness ==
    /\ pc = "intake" /\ input.op = "configureThresholds"
    /\ input.args = <<<<0>>, <<>>, <<200>>>>
    /\ result.st = "returned" /\ result.val.updated
    /\ db.thresholds = <<ThresholdConfig(0, 80, 200)>>

---------------------------------------------------------------------------
(* claim C39 *)

\* The step is a configure_thresholds tool call that supplies at least one
\* threshold.
C39_Call ==
    /\ pc = "intake" /\ input'.op = "configure_thresholds"
    /\ \E i \in 1..3 : Len(input'.args[i]) = 1

\* Every supplied threshold is the stored one after the call.
C39_Stored ==
    LET stored == GetThresholds(db')
    IN /\ Len(input'.args[1]) = 1 => stored.autoAdmitMax = input'.args[1][1]
       /\ Len(input'.args[2]) = 1 => stored.reviewRecommendedMax = input'.args[2][1]
       /\ Len(input'.args[3]) = 1 => stored.reviewRequiredMax = input'.args[3][1]

C39_Step ==
    C39_Call =>
        /\ result'.st = "threw" \/ C39_Stored
        /\ db' = PutConfig(db, input'.args[1], input'.args[2], input'.args[3]).db

\* C39: a configure_thresholds tool call that supplies at least one threshold,
\* the value 0 included, either stores every supplied value or fails with a
\* validation error, and leaves the stored thresholds as PUT /api/config with
\* the same input would.
C39_ToolAsPutConfig == [][C39_Step]_vars

---------------------------------------------------------------------------
(* One transport per socket: claim C32 *)

\* The transports of this socket that hold, are acquiring or are releasing the
\* UDP port.
C32_Live ==
    {s \in 1..Len(sockets) : sockets[s] \in {"binding", "listening", "closing"}}

\* The stop() of the socket has completed and no start() was called since.
C32_Stopped == sharedSocket # 0 /\ sockets[sharedSocket] = "closed"

\* C32: the lifecycle is Stopped -> Starting -> Listening -> Stopping ->
\* Stopped only: the socket has at most one live transport at any time (a
\* start() while Listening creates no second one), and once stop() has
\* completed every transport an earlier start() created is shut down.
C32_OneTransport ==
    /\ Cardinality(C32_Live) <= 1
    /\ C32_Stopped => C32_Live = {}

---------------------------------------------------------------------------
(* The registry across stop() and start(): claim C33 *)

\* The step of stop() in which it clears the registry and begins to close the
\* transport (stop() of a socket that start() was never called on returns at
\* once and is no step).
C33_StopStep ==
    /\ sharedSocket # 0
    /\ sockets[sharedSocket] \in {"listening", "failed", "closed"}
    /\ sockets'[sharedSocket] \in {"closing", "closingDead"}

C33_Cleared ==
    C33_StopStep => (handlers' = NoHandlers /\ defaultHandler' = NoHandler)

\* One admitted signal is counted, and it invokes what the registry holds at
\* that moment: the handlers of its type from the first on, else the default
\* handler, else nothing.
C33_InEffect ==
    (delivered' = delivered + 1 /\ ConfigAdmits(last'.type)) =>
        /\ stats'.allowed = stats.allowed + 1
        /\ last'.events[1] = IsAllowedTrue
        /\ \E inv \in {Invoked(last')} :
              IF handlers[last'.type] # <<>>
              THEN /\ inv # <<>>
                   /\ inv = SubSeq(handlers[last'.type], 1, Len(inv))
              ELSE IF defaultHandler # NoHandler
              THEN inv = <<defaultHandler>>
              ELSE inv = <<>>

---------------------------------------------------------------------------
(* Sending outside Listening: claim C34 *)

\* The socket is not Listening: start() was never called, its bind failed, or
\* stop() has completed.
C34_NotListening ==
    \/ sharedSocket = 0
    \/ sockets[sharedSocket] \in {"failed", "closed"}

C34_Step ==
    (delivered' = delivered + 1 /\ C34_NotListening) =>
        (last'.events = <<>> /\ ~last'.raised)

\* C34: send and broadcast hand a datagram to the transport only while the
\* socket is Listening: before the first start(), after a failed start() and
\* after stop() has completed they transmit nothing and do not fail.
C34_SendOnlyWhileListening == [][C34_Step]_vars

---------------------------------------------------------------------------
(* The two readings of a buffer: claim C35 *)

\* A DecodedMessage was returned (not null, no exception).
IsMessage(o) == o.st = "returned" /\ o.val # JNull

\* decode with the two formats tried in the other order.
DecodeTextFirst(b) ==
    Only({IF textResult.st = "threw" THEN Threw
          ELSE IF textResult.val # JNull THEN textResult
          ELSE DecodeBinary(b)
          : textResult \in {DecodeText(b)}})

\* C35: no buffer is decodable both as a fixed binary frame and as a textual
\* frame, so the result of decode does not depend on the order in which the two
\* readings are tried; in particular every frame encode produces is refused by
\* the binary reading and decoded by the textual one.
C35_OneReading ==
    /\ ~(IsMessage(DecodeBinary(buffer)) /\ IsMessage(DecodeText(buffer)))
    /\ pc = "done" => result = DecodeTextFirst(buffer)
    /\ (pc = "done" /\ input.kind = "signal") =>
          /\ ~IsMessage(DecodeBinary(buffer))
          /\ IsMessage(result)
          /\ result = DecodeText(buffer)

\* A frame encode produced, long enough to carry a binary header, was decoded
\* to a signal.
C35_Witness ==
    /\ pc = "done"
    /\ input.kind = "signal"
    /\ Len(buffer) >= 12
    /\ IsMessage(result)

---------------------------------------------------------------------------
(* One admission per content hash: claim C37 *)

C37_OnePerHash ==
    \A i, j \in 1..Len(db.admitted) :
        db.admitted[i].content_hash = db.admitted[j].content_hash => i = j

\* admitContent of a hash that is admitted already answers with the id of the
\* record there is and writes nothing.
C37_Step ==
    (input'.op = "admitContent" /\ IsAdmitted(db, input'.content_hash)) =>
        /\ db' = db
        /\ result'.st = "returned"
        /\ result'.val.admitted
        /\ result'.val.admission_id = GetAdmittedByHash(db, input'.content_hash).id

\* C37: admitContent is idempotent per content hash: there is at most one
\* admitted_content record per hash in every reachable state, and admitting an
\* already admitted hash returns the admission id of the existing record and
\* creates no new record, under any interleaving of admitContent calls.
C37_AdmitIdempotent == []C37_OnePerHash /\ [][C37_Step]_vars

\* Content whose decision needs an override was admitted, and a later
\* admitContent for it (without override, which a first admission would have
\* refused) got the id of that admission.
C37_Witness ==
    /\ pc = "intake" /\ input.op = "admitContent"
    /\ input.override = JBool(FALSE)
    /\ IsAdmitted(db, input.content_hash)
    /\ db.decisions[GetDecisionByHash(db, input.content_hash)].decision
           \in {"auto_reject", "review_required"}
    /\ result.st = "returned"
    /\ result.val.admission_id = GetAdmittedByHash(db, input.content_hash).id

---------------------------------------------------------------------------
(* Concurrent checks and the history: claims C36, C40 *)

\* The limit and decision_filter arguments offered to getHistory; <<>> for one
\* left out.
HistoryInputs ==
    [limit |-> {<<>>, <<0>>, <<1>>},
     decision_filter |-> {<<>>, <<"auto_reject">>}]

RECURSIVE NewestFirst(_, _, _)
\* The rows 1..i of intake_decisions that pass the filter, latest first.
NewestFirst(rows, i, decisionFilter) ==
    IF i = 0 THEN <<>>
    ELSE IF decisionFilter = <<>> \/ rows[i].decision = decisionFilter[1]
    THEN <<rows[i]>> \o NewestFirst(rows, i - 1, decisionFilter)
    ELSE NewestFirst(rows, i - 1, decisionFilter)

\* listDecisions(limit, decisionFilter): ... ORDER BY created_at DESC LIMIT ?
ListDecisions(database, limit, decisionFilter) ==
    LET all == NewestFirst(database.decisions, Len(database.decisions), decisionFilter)
    IN SubSeq(all, 1, IF limit < Len(all) THEN limit ELSE Len(all))

\* The history entry getHistory makes of a row.
HistoryEntry(d) ==
    [id |-> d.id, content_hash |-> d.content_hash, decision |-> d.decision,
     redundancy_score |-> d.redundancy_score, override |-> d.override = 1]

\* getHistory(input), with `input.limit || 50`
GetHistory(limit, decisionFilter) ==
    LET decisions == ListDecisions(db, IF Falsy(limit) THEN 50 ELSE limit[1],
                                   decisionFilter)
    IN /\ InService
       /\ input' = [kind |-> "intake", op |-> "getHistory", limit |-> limit,
                    decision_filter |-> decisionFilter]
       /\ result' = Returned([entries |-> [k \in 1..Len(decisions) |->
                                              HistoryEntry(decisions[k])],
                              total |-> Len(db.decisions)])
       /\ UNCHANGED <<db, buffer>>
       /\ intakeUnchanged

\* The service with its database open, where concurrent checks are followed.
ChecksInit ==
    /\ db = NewDatabase
    /\ input = [kind |-> "intake", op |-> "none"]
    /\ buffer = <<>>
    /\ result = NoResult
    /\ pc = "checks"
    /\ sockets = <<>>
    /\ sharedSocket = 0
    /\ isRunning = FALSE
    /\ handlers = NoHandlers
    /\ defaultHandler = NoHandler
    /\ allowedSignals = {}
    /\ stats = ZeroStats
    /\ delivered = 0
    /\ last = NoDelivery
    /\ heartbeatTimer = "null"
    /\ http = NoServer

ChecksNext ==
    /\ \/ \E content \in Contents : CheckContent(content)
       \/ \E i \in 1..MaxChecks, outcome \in BBBOutcomes : AnalysisSettles(i, outcome)
       \/ \E contentHash \in AdmitHashes,
             o \in 1..Len(AdmitOptions.override),
             r \in 1..Len(AdmitOptions.override_reason),
             d \in 1..Len(AdmitOptions.destination) :
             AdmitContent(contentHash, AdmitOptions.override[o],
                          AdmitOptions.override_reason[r],
                          AdmitOptions.destination[d])
       \/ \E limit \in HistoryInputs.limit,
             decisionFilter \in HistoryInputs.decision_filter :
             GetHistory(limit, decisionFilter)
    /\ UNCHANGED http

SpecChecks == ChecksInit /\ [][ChecksNext]_vars

\* C36: in every reachable state there is at most one intake decision record
\* per content hash, also when two checkContent (or checkFile) calls for the
\* same content are in flight at once and interleave around the call to the
\* scoring service.
C36_OneDecisionPerHash ==
    \A i, j \in 1..Len(db.decisions) :
        db.decisions[i].content_hash = db.decisions[j].content_hash => i = j

\* The content is admitted and every decision recorded for it asks for an
\* override: admitContent let it pass with override = true only.
C40_ByOverride(contentHash) ==
    /\ IsAdmitted(db, contentHash)
    /\ \A i \in 1..Len(db.decisions) :
          db.decisions[i].content_hash = contentHash =>
              db.decisions[i].decision \in {"auto_reject", "review_required"}

\* C40: after content has been admitted through admitContent with override =
\* true, getHistory reports override = true for that content's entry, and it
\* reports override = false for every entry whose content was not admitted
\* by override (here: not admitted at all).
C40_HistoryShowsOverride ==
    (input.op = "getHistory" /\ result.st = "returned") =>
        \A k \in 1..Len(result.val.entries) :
            \E e \in {result.val.entries[k]} :
                /\ C40_ByOverride(e.content_hash) => e.override
                /\ ~IsAdmitted(db, e.content_hash) => ~e.override

---------------------------------------------------------------------------
(* The rate limiter: claim C38 *)

\* The step is a request of the client.
C38_Request == http.listening /\ http'.served = http.served + 1

\* The request falls into the window of the client's entry.
C38_InWindow ==
    /\ http.rateLimitMap # <<>>
    /\ http'.req.now <= http.rateLimitMap[1].resetTime

\* The request is answered before the rate limiter: by the body parser or by
\* the CORS middleware.
C38_AnsweredBefore == http'.req.body = "malformed" \/ http'.req.method = "OPTIONS"

\* The request was answered 429, no route handler ran, nothing changed.
C38_Refused ==
    /\ http'.res = [status |-> 429, route |-> "none"]
    /\ http'.rateLimitMap = http.rateLimitMap
    /\ input'.op = "http"
    /\ db' = db /\ buffer' = buffer /\ result' = result

C38_Restarted ==
    /\ http'.res.status # 429
    /\ http'.rateLimitMap = <<[count |-> 1,
                               resetTime |-> http'.req.now + RATE_LIMIT_WINDOW]>>

C38_Counted ==
    /\ http'.res.status # 429
    /\ http'.rateLimitMap =
           <<[http.rateLimitMap[1] EXCEPT !.count = @ + 1]>>

\* The entry never counts more than RATE_LIMIT_MAX requests.
C38_AtMostMax ==
    (http.listening /\ http.rateLimitMap # <<>>) =>
        http.rateLimitMap[1].count \in 1..RATE_LIMIT_MAX

C38_OriginalStep ==
    C38_Request =>
        IF ~C38_InWindow THEN C38_Restarted
        ELSE IF http.rateLimitMap[1].count >= RATE_LIMIT_MAX THEN C38_Refused
        ELSE C38_Counted

C38_Step ==
    C38_Request =>
        IF C38_AnsweredBefore
        THEN /\ http'.rateLimitMap = http.rateLimitMap
             /\ http'.res.route = "none"
             /\ http'.res.status = IF http'.req.body = "malformed" THEN 400 ELSE 200
        ELSE IF ~C38_InWindow THEN C38_Restarted
        ELSE IF http.rateLimitMap[1].count >= RATE_LIMIT_MAX THEN C38_Refused
        ELSE C38_Counted

=============================================================================
